---- MODULE Spec2Model ----
(***************************************************************************)
(* Order-extraction pipeline of backend/tasks/task_extract_data.py:        *)
(* extract_data_task loops over the extracted emails of a job and runs     *)
(* process_single_email on each (phase 1 customer, phase 2 product lines,  *)
(* phase 3 five parallel sub-extractions on a ThreadPoolExecutor, phase 4  *)
(* merge).  An email is modelled by what the collaborators (oracle,        *)
(* registry) answer for its text; whether a call raises is chosen          *)
(* nondeterministically.                                                   *)
(***************************************************************************)
EXTENDS Integers, Sequences, FiniteSets, TLC

\* ------------------------------------------------------------------ bounds
MaxEmails == 2      \* emails of one job
MaxLines  == 3      \* product lines the oracle extracts from one email
MaxList   == 4      \* length of an extracted date / reference / valve list

\* ------------------------------------------------------------- Python values
None == "None"

\* dict.get(key, default)
Get(d, key, default) == IF key \in DOMAIN d THEN d[key] ELSE default

\* [x] * n
Repeat(x, n) == [i \in 1..n |-> x]

\* seq[:n]
Take(seq, n) == [i \in 1..(IF n < Len(seq) THEN n ELSE Len(seq)) |-> seq[i]]

\* sep.join(seq) for a sequence of strings
RECURSIVE Join(_, _)
Join(sep, seq) ==
    IF Len(seq) = 0 THEN ""
    ELSE IF Len(seq) = 1 THEN seq[1]
    ELSE seq[1] \o sep \o Join(sep, Tail(seq))

\* the five phase-3 fields, in the order they are submitted
FIELDS == <<"reference_no", "valve", "delivery_address", "cpsd", "options">>
FieldSet == {FIELDS[i] : i \in 1..Len(FIELDS)}

max_workers == 5

VALID_VALVE_VALUES ==
    {"Yes", "no", "Horizontal valve", "Vertical valve", "Rectangular valve"}

\* the oracle call of a subagent failed (call_default / call_complex raised)
OracleError == [oracle_error |-> "oracle call failed"]
IsOracleError(response) == "oracle_error" \in DOMAIN response

\* --------------------------------------------------------- phase-3 subagents
\* Each subagent is given the oracle's response for the email (a record, or
\* OracleError) and returns the dictionary its code returns.

extract_cpsd(response) ==
    IF IsOracleError(response)
    THEN [cpsds |-> <<>>, entry_id |-> None, error |-> response.oracle_error]
    ELSE [cpsds    |-> Get(response, "cpsds", <<>>),
          entry_id |-> Get(response, "entry_id", None),
          error    |-> None]

extract_reference_no(response) ==
    IF IsOracleError(response)
    THEN [reference_nos |-> <<>>, error |-> response.oracle_error]
    ELSE [reference_nos |-> Get(response, "reference_nos", <<>>), error |-> None]

\* faulty variant: a single valve value is repeated for every line
PadBroadcastSingle(valves, num_order_lines) ==
    IF Len(valves) = 1 THEN Repeat(valves[1], num_order_lines)
    ELSE valves \o Repeat("no", num_order_lines - Len(valves))

PadNoValve(valves, num_order_lines) ==
    valves \o Repeat("no", num_order_lines - Len(valves))

\* faulty variant: a list of the wrong length is rejected, every line gets "no"
FixValveLengthRejects(valves, num_order_lines) ==
    IF Len(valves) # num_order_lines THEN Repeat("no", num_order_lines)
    ELSE valves

FixValveLength(valves, num_order_lines) ==
    IF Len(valves) # num_order_lines
    THEN IF Len(valves) < num_order_lines
         THEN PadNoValve(valves, num_order_lines)
         ELSE Take(valves, num_order_lines)
    ELSE valves

detect_valve_request(response, num_order_lines) ==
    IF IsOracleError(response)
    THEN [valves |-> Repeat("no", num_order_lines), error |-> response.oracle_error]
    ELSE LET valves == FixValveLength(Get(response, "valves", <<>>), num_order_lines)
         IN  [valves |-> [i \in 1..Len(valves) |->
                            IF valves[i] \in VALID_VALVE_VALUES THEN valves[i] ELSE "no"],
              error  |-> None]

\* a dict-valued None (a missing failure_context, a failed address lookup)
NoneDict == [k \in {} |-> None]

\* format_address_from_db: the non-empty parts joined by ", "
format_address_from_db(address) ==
    Join(", ", SelectSeq(<<address.street_address, address.post_code,
                           address.city, address.province>>,
                         LAMBDA p : p # None /\ p # ""))

NoAddress(err) ==
    [delivery_address |-> None, telephone_number |-> None,
     contact_name |-> None, error |-> err]

\* registry: what get_customer_addresses answers for the customer, a record
\* holding the known addresses, or OracleError when the query raises
extract_delivery_address(response, customerid, registry) ==
    IF IsOracleError(response)
    THEN NoAddress("LLM extraction failed: " \o response.oracle_error)
    ELSE IF Get(response, "delivery_address", None) \notin {None, ""}
    THEN [delivery_address |-> response.delivery_address,
          telephone_number |-> Get(response, "telephone_number", None),
          contact_name     |-> Get(response, "contact_name", None),
          error            |-> None]
    ELSE IF customerid \notin {None, ""}
    THEN IF IsOracleError(registry)
         THEN NoAddress("Database fallback failed: " \o registry.oracle_error)
         ELSE IF Len(registry.known_addresses) = 1
         THEN [delivery_address |-> format_address_from_db(registry.known_addresses[1]),
               telephone_number |-> None, contact_name |-> None, error |-> None]
         ELSE NoAddress(None)
    ELSE NoAddress(None)

NoOption(err) == [option_sku |-> None, option_qty |-> None, error |-> err]

\* option_row: what query_options_table answers for the resolved family and
\* colour (None when the table has no row)
extract_options(response, order_lines, option_row) ==
    IF Len(order_lines) = 0 THEN NoOption(None)
    ELSE IF Get(order_lines[1], "family_desc", None) \in {None, ""} THEN NoOption(None)
    ELSE IF IsOracleError(response) THEN NoOption(response.oracle_error)
    ELSE IF ~Get(response, "has_options", FALSE) THEN NoOption(None)
    ELSE IF option_row \in {None, ""}
    THEN NoOption("No option SKU found for family " \o order_lines[1].family_desc)
    ELSE [option_sku |-> option_row,
          option_qty |-> Get(response, "quantity", "1"),
          error      |-> None]

\* ------------------------------------------------ phase-1 and phase-2 subagents
THRESHOLD == "0.85"

CustomerFailure(names, err) ==
    [customer_id |-> None, customer_name |-> None,
     potential_names |-> names, error |-> err]

FallbackSuccess(names, fallback_result) ==
    [customer_id     |-> fallback_result.customer_id,
     customer_name   |-> fallback_result.customer_name,
     potential_names |-> names,
     matched_via     |-> Get(fallback_result, "matched_via", None),
     matched_email   |-> Get(fallback_result, "matched_email", None),
     error           |-> None]

\* response: the oracle's answer; fuzzy: what fuzzy_match_customer returns for
\* the candidate names; fallback_result: what try_email_lookup_fallback returns
\* (NoneDict when the sender address resolves to no customer)
extract_customer_id(response, fuzzy, fallback_result) ==
    IF IsOracleError(response) THEN CustomerFailure(<<>>, response.oracle_error)
    ELSE IF /\ Get(response, "customer_id", None) # None
            /\ ~Get(response, "needs_fuzzy_match", TRUE)
    THEN [customer_id     |-> response.customer_id,
          customer_name   |-> Get(response, "customer_name", None),
          potential_names |-> <<Get(response, "customer_name", None)>>,
          error           |-> None]
    ELSE LET potential_names == Get(response, "customer_names", <<>>) IN
         IF Len(potential_names) = 0
         THEN IF fallback_result # NoneDict
              THEN FallbackSuccess(<<>>, fallback_result)
              ELSE CustomerFailure(<<>>,
                     "No customer names found in email and email lookup fallback failed")
         ELSE IF fuzzy.customer_id = None
         THEN IF fallback_result # NoneDict
              THEN FallbackSuccess(potential_names, fallback_result)
              ELSE CustomerFailure(potential_names,
                     "No database match found (email lookup also failed)")
                   @@ [failure_context |->
                         [type                   |-> "customer_id",
                          extracted_names        |-> potential_names,
                          best_match_name        |-> Get(fuzzy.match_details, "best_match_name", None),
                          best_match_id          |-> Get(fuzzy.match_details, "best_match_id", None),
                          best_match_score       |-> Get(fuzzy.match_details, "best_score", None),
                          threshold_used         |-> THRESHOLD,
                          email_lookup_attempted |-> TRUE]]
         ELSE [customer_id     |-> fuzzy.customer_id,
               customer_name   |-> fuzzy.customer_name,
               potential_names |-> potential_names,
               error           |-> None]

\* faulty variant: the sender address is looked up only when no name was found
CustomerIdCallsNoRetry(response, fuzzy) ==
    IF IsOracleError(response) THEN <<"call_complex">>
    ELSE IF /\ Get(response, "customer_id", None) # None
            /\ ~Get(response, "needs_fuzzy_match", TRUE)
    THEN <<"call_complex">>
    ELSE IF Len(Get(response, "customer_names", <<>>)) = 0
    THEN <<"call_complex", "try_email_lookup_fallback">>
    ELSE <<"call_complex", "fuzzy_match_customer">>

\* the collaborators extract_customer_id calls, in order, on the path that
\* extract_customer_id(response, fuzzy, _) takes
extract_customer_id_calls(response, fuzzy) ==
    IF IsOracleError(response) THEN <<"call_complex">>
    ELSE IF /\ Get(response, "customer_id", None) # None
            /\ ~Get(response, "needs_fuzzy_match", TRUE)
    THEN <<"call_complex">>
    ELSE IF Len(Get(response, "customer_names", <<>>)) = 0
    THEN <<"call_complex", "try_email_lookup_fallback">>
    ELSE IF fuzzy.customer_id = None
    THEN <<"call_complex", "fuzzy_match_customer", "try_email_lookup_fallback">>
    ELSE <<"call_complex", "fuzzy_match_customer">>

\* faulty variant: the loop ends at the first line that fails
RECURSIVE ProcessLinesBreak(_, _)
ProcessLinesBreak(order_lines_raw, idx) ==
    IF idx > Len(order_lines_raw) THEN [processed |-> <<>>, failed_lines |-> <<>>]
    ELSE LET line == order_lines_raw[idx]
             rest == ProcessLinesBreak(order_lines_raw, idx + 1)
         IN  IF line.fails # None
             THEN [processed    |-> <<>>,
                   failed_lines |-> <<[line_number |-> idx, reason |-> line.fails]>>]
             ELSE [processed    |-> <<[sku         |-> line.sku,
                                       quantity    |-> line.quantity,
                                       family_desc |-> line.family_desc]>>
                                    \o rest.processed,
                   failed_lines |-> rest.failed_lines]

\* The per-line loop of extract_sku_and_quantity.  A raw line carries the
\* outcome of its checks in "fails": None when it passes them all, else the
\* reason code of the first check that rejects it.
RECURSIVE ProcessLines(_, _)
ProcessLines(order_lines_raw, idx) ==
    IF idx > Len(order_lines_raw) THEN [processed |-> <<>>, failed_lines |-> <<>>]
    ELSE LET line == order_lines_raw[idx]
             rest == ProcessLines(order_lines_raw, idx + 1)
         IN  IF line.fails # None
             THEN [processed    |-> rest.processed,
                   failed_lines |-> <<[line_number |-> idx, reason |-> line.fails]>>
                                    \o rest.failed_lines]
             ELSE [processed    |-> <<[sku         |-> line.sku,
                                       quantity    |-> line.quantity,
                                       family_desc |-> line.family_desc]>>
                                    \o rest.processed,
                   failed_lines |-> rest.failed_lines]

extract_sku_and_quantity(response) ==
    IF IsOracleError(response)
    THEN [order_lines |-> <<>>, error |-> response.oracle_error,
          failure_context |-> [type |-> "sku_extraction", reason |-> "exception"]]
    ELSE LET order_lines_raw == Get(response, "order_lines", <<>>) IN
         IF Len(order_lines_raw) = 0
         THEN [order_lines |-> <<>>, error |-> "No order lines found in email",
               failure_context |-> [type |-> "sku_extraction", reason |-> "no_order_lines"]]
         ELSE LET r == ProcessLines(order_lines_raw, 1) IN
              IF Len(r.processed) = 0
              THEN [order_lines |-> <<>>, error |-> "Failed to process any order lines",
                    failure_context |->
                      [type                  |-> "sku_extraction",
                       reason                |-> "all_lines_failed",
                       total_lines_attempted |-> Len(order_lines_raw),
                       failed_lines          |-> r.failed_lines]]
              ELSE [order_lines |-> r.processed, error |-> None,
                    failure_context |-> NoneDict]

\* ------------------------------------------------------------ phase-4 merge
\* len(x) if x else 0, for a list x (a missing list is read as the empty one)
LenOrZero(x) == Len(x)

\* faulty variant: a count mismatch pairs the dates it has by position
CpsdAssignmentsGuess(cpsds, num_lines) ==
    LET num_cpsds == Len(cpsds) IN
    IF num_cpsds = num_lines THEN cpsds
    ELSE IF num_cpsds = 1 THEN Repeat(cpsds[1], num_lines)
    ELSE [i \in 1..num_lines |-> IF i <= num_cpsds THEN cpsds[i] ELSE None]

cpsd_assignments(cpsds, num_lines) ==
    LET num_cpsds == LenOrZero(cpsds) IN
    IF num_cpsds = num_lines THEN cpsds
    ELSE IF num_cpsds = 1 THEN Repeat(cpsds[1], num_lines)
    ELSE IF num_cpsds = 0 THEN Repeat(None, num_lines)
    ELSE Repeat(None, num_lines)

\* faulty variant: several references are joined whatever the number of lines
RefAssignmentsJoinAlways(reference_nos, num_lines) ==
    LET num_refs == Len(reference_nos) IN
    IF num_refs = num_lines THEN reference_nos
    ELSE IF num_refs = 1 THEN Repeat(reference_nos[1], num_lines)
    ELSE IF num_refs > 1 THEN <<Join(", ", reference_nos)>>
    ELSE Repeat(None, num_lines)

\* faulty variant: a count mismatch pairs the references it has by position
RefAssignmentsPartial(reference_nos, num_lines) ==
    LET num_refs == Len(reference_nos) IN
    IF num_refs = num_lines THEN reference_nos
    ELSE IF num_refs = 1 THEN Repeat(reference_nos[1], num_lines)
    ELSE IF num_refs > 1 /\ num_lines = 1 THEN <<Join(", ", reference_nos)>>
    ELSE [i \in 1..num_lines |-> IF i <= num_refs THEN reference_nos[i] ELSE None]

ref_assignments(reference_nos, num_lines) ==
    LET num_refs == LenOrZero(reference_nos) IN
    IF num_refs = num_lines THEN reference_nos
    ELSE IF num_refs = 1 THEN Repeat(reference_nos[1], num_lines)
    ELSE IF num_refs > 1 /\ num_lines = 1 THEN <<Join(", ", reference_nos)>>
    ELSE IF num_refs = 0 THEN Repeat(None, num_lines)
    ELSE Repeat(None, num_lines)

valve_assignments(valves, num_lines) ==
    LET num_valves == LenOrZero(valves) IN
    IF num_valves = num_lines THEN valves
    ELSE IF num_valves < num_lines
    THEN valves \o Repeat("no", num_lines - num_valves)
    ELSE Take(valves, num_lines)

\* what the as_completed loop stores for a future whose result() raised
ExceptionResult(field_name) ==
    (field_name :> None) @@ [error |-> "task raised"]

\* lines 238-314: the merged order lines of one email
merged_orders(res, order_lines, order_number, customer_id, customer_name, message_id) ==
    LET cpsds             == Get(res["cpsd"], "cpsds", <<>>)
        entry_id_from_cpsd == Get(res["cpsd"], "entry_id", None)
        final_entry_id    == IF entry_id_from_cpsd \notin {None, ""}
                             THEN entry_id_from_cpsd ELSE message_id
        reference_nos     == Get(res["reference_no"], "reference_nos", <<>>)
        num_lines         == Len(order_lines)
        cpsd_a            == cpsd_assignments(cpsds, num_lines)
        ref_a             == ref_assignments(reference_nos, num_lines)
        valve_a           == valve_assignments(
                               Get(res["valve"], "valves", Repeat("no", num_lines)),
                               num_lines)
    IN  [idx \in 1..num_lines |->
           [orderno          |-> order_number,
            customerid       |-> customer_id,
            customer_name    |-> customer_name,
            sku              |-> order_lines[idx].sku,
            quantity         |-> order_lines[idx].quantity,
            reference_no     |-> ref_a[idx],
            valve            |-> valve_a[idx],
            delivery_address |-> Get(res["delivery_address"], "delivery_address", None),
            cpsd             |-> cpsd_a[idx],
            entry_id         |-> final_entry_id,
            option_sku       |-> Get(res["options"], "option_sku", None),
            option_qty       |-> Get(res["options"], "option_qty", None),
            telephone_number |-> Get(res["delivery_address"], "telephone_number", None),
            contact_name     |-> Get(res["delivery_address"], "contact_name", None)]]

\* faulty variant: the stub drops the customer resolved in phase 1
FailureStubNoCustomer(order_number, customer_id, customer_name, message_id, err) ==
    [orderno |-> order_number, customerid |-> None, customer_name |-> None,
     sku |-> None, quantity |-> None, reference_no |-> None, valve |-> "no",
     delivery_address |-> None, cpsd |-> None, entry_id |-> message_id,
     option_sku |-> None, option_qty |-> None, telephone_number |-> None,
     contact_name |-> None, error |-> err]

\* the failure-stub order line of lines 126-143, 168-185 and 411-428
FailureStub(order_number, customer_id, customer_name, message_id, err) ==
    [orderno          |-> order_number,
     customerid       |-> customer_id,
     customer_name    |-> customer_name,
     sku              |-> None,
     quantity         |-> None,
     reference_no     |-> None,
     valve            |-> "no",
     delivery_address |-> None,
     cpsd             |-> None,
     entry_id         |-> message_id,
     option_sku       |-> None,
     option_qty       |-> None,
     telephone_number |-> None,
     contact_name     |-> None,
     error            |-> err]

\* if result.get("failure_context"): fc[...] = ...; failure_contexts.append(fc)
CapturedContexts(result, extra) ==
    IF Get(result, "failure_context", NoneDict) # NoneDict
    THEN <<extra @@ result.failure_context>>
    ELSE <<>>

\* the keyword arguments the built-in print accepts
PrintKeywords == {"sep", "end", "file", "flush"}

\* ------------------------------------------------------------------ emails
\* An extracted email, as the answers its text draws from the collaborators.
RawLine(n, fails) ==
    [fails |-> fails, sku |-> "NAT140080MOK" \o ToString(n), quantity |-> ToString(n),
     family_desc |-> "Nature"]

OkLines(n) == [i \in 1..n |-> RawLine(i, None)]

DirectCustomer ==
    [customer_id |-> "2693", customer_name |-> "NEWKER", needs_fuzzy_match |-> FALSE]
NamedCustomer == [customer_names |-> <<"Soria Gamma">>]
NoNames       == [customer_names |-> <<>>]

FuzzyHit  == [customer_id |-> "1041", customer_name |-> "MATERIALES SORIA",
              match_details |-> [best_score |-> "0.91"]]
FuzzyMiss == [customer_id |-> None, customer_name |-> None,
              match_details |-> [best_score |-> "0.52", best_match_id |-> "77",
                                 best_match_name |-> "LITO", threshold |-> THRESHOLD]]
LookupHit == [customer_id |-> "3005", customer_name |-> "BARROSO",
              matched_via |-> "email_lookup", matched_email |-> "a@b.es"]

Dates(n) == [i \in 1..n |-> "2025-10-" \o ToString(10 + i)]
Refs(n)  == [i \in 1..n |-> "REF" \o ToString(i)]

NoAddressFound == [delivery_address |-> None]
AddressFound   == [delivery_address |-> "Cno de la Torrecilla, 18200, Maracena",
                   telephone_number |-> "958000000", contact_name |-> "Ana"]
NoKnownAddress  == [known_addresses |-> <<>>]
OneKnownAddress == [known_addresses |->
                      <<[street_address |-> "C/ Mayor 1", post_code |-> "28001",
                         city |-> "Madrid", province |-> None]>>]

\* an email whose phase-3 extractions all find nothing
PlainEmail ==
    [message_id         |-> "AAMk-plain",
     customer_response  |-> DirectCustomer,
     fuzzy              |-> FuzzyMiss,
     fallback_result    |-> NoneDict,
     sku_response       |-> [order_lines |-> OkLines(1)],
     reference_response |-> [reference_nos |-> <<>>],
     valve_response     |-> [valves |-> <<"no">>],
     address_response   |-> NoAddressFound,
     known_addresses    |-> NoKnownAddress,
     cpsd_response      |-> [cpsds |-> <<>>],
     options_response   |-> [has_options |-> FALSE],
     option_row         |-> None]

\* two product lines (one raw line is rejected) and a single date
DatedEmail ==
    [PlainEmail EXCEPT
       !.message_id        = "AAMk-dated",
       !.customer_response = NamedCustomer,
       !.fuzzy             = FuzzyHit,
       !.sku_response      = [order_lines |->
                                <<RawLine(1, None), RawLine(2, "missing_fields"),
                                  RawLine(3, None)>>],
       !.valve_response    = [valves |-> <<"no", "no">>],
       !.cpsd_response     = [cpsds |-> Dates(1)]]

\* candidate names that match no record, sender unknown
NoMatchEmail ==
    [PlainEmail EXCEPT !.message_id = "AAMk-nomatch",
                       !.customer_response = NamedCustomer]

\* no candidate names, sender unknown, message id missing
NoNamesEmail ==
    [PlainEmail EXCEPT !.message_id = "", !.customer_response = NoNames]

\* customer found through the sender address, no product line passes
NoLinesEmail ==
    [PlainEmail EXCEPT
       !.message_id        = "AAMk-nolines",
       !.customer_response = NoNames,
       !.fallback_result   = LookupHit,
       !.sku_response      = [order_lines |-> <<RawLine(1, "color_match_failed")>>]]

\* a fuzzy match; the sender address is known too, no product line passes
MatchedNoLinesEmail ==
    [NoLinesEmail EXCEPT !.message_id = "AAMk-matched",
                         !.customer_response = NamedCustomer,
                         !.fuzzy = FuzzyHit]

\* no fuzzy match, customer found through the sender address
LookupAfterMissEmail ==
    [NoLinesEmail EXCEPT !.message_id = "AAMk-lookup",
                         !.customer_response = NamedCustomer]

\* the oracle names a customer id but asks for fuzzy matching, without names
UnconfirmedIdEmail ==
    [NoLinesEmail EXCEPT
       !.message_id = "AAMk-unconfirmed",
       !.customer_response = [customer_id |-> "2693", customer_name |-> "NEWKER",
                              needs_fuzzy_match |-> TRUE, customer_names |-> <<>>]]

\* the oracle call of extract_customer_id fails
CustomerOracleDownEmail ==
    [NoLinesEmail EXCEPT !.message_id = "AAMk-cdown",
                         !.customer_response = OracleError]

\* every phase-3 extraction finds something: n product lines, c dates,
\* r references, valve list v
FullEmail(n, c, r, v) ==
    [PlainEmail EXCEPT
       !.message_id         = "AAMk-full",
       !.sku_response       = [order_lines |-> OkLines(n)],
       !.reference_response = [reference_nos |-> Refs(r)],
       !.valve_response     = [valves |-> v],
       !.address_response   = AddressFound,
       !.cpsd_response      = [cpsds |-> Dates(c), entry_id |-> "ENTRY-9"],
       !.options_response   = [has_options |-> TRUE, quantity |-> "2"],
       !.option_row         = "NATREJ0001"]

\* the oracle is down for the phase-3 extractions; the registry knows one address
OracleDownEmail ==
    [FullEmail(2, 1, 1, <<"Yes">>) EXCEPT
       !.message_id         = "AAMk-down",
       !.reference_response = OracleError,
       !.valve_response     = OracleError,
       !.address_response   = NoAddressFound,
       !.known_addresses    = OneKnownAddress,
       !.cpsd_response      = OracleError,
       !.options_response   = OracleError]

JobEmails == {DatedEmail, NoMatchEmail, NoLinesEmail}

RichEmails ==
    {FullEmail(2, 1, 2, <<"Vertical valve">>),
     FullEmail(1, 2, 3, <<"Yes", "no", "no">>),
     FullEmail(3, 3, 2, <<"Horizontal valve", "lateral", "Rectangular valve">>),
     OracleDownEmail, NoMatchEmail, NoNamesEmail, NoLinesEmail,
     MatchedNoLinesEmail, LookupAfterMissEmail, UnconfirmedIdEmail,
     CustomerOracleDownEmail}

SeqsUpTo(S, n) == UNION {[1..k -> S] : k \in 0..n}

\* valve values the oracle may answer: two valid ones and one outside the set
OracleValves == {"no", "Vertical valve", "lateral"}

\* ------------------------------------------------------------------- state
VARIABLES
    jobStatus,             \* job_runs.status of the job
    pc,                    \* where extract_data_task / process_single_email is
    extracted_emails,      \* emails_extracted.json
    idx,                   \* index of the email being processed (1-based)
    order_number,
    all_orders,
    all_failure_contexts,
    message_id,            \* of the current email, after the missing_<idx> default
    customer,              \* customer_id / customer_name resolved in phase 1
    order_lines,           \* product lines resolved in phase 2
    futures,               \* state of the five futures of the executor
    yield_order,           \* futures the as_completed loop has consumed, in order
    results,               \* results dict of the as_completed loop
    calls,                 \* subagents invoked for the current email
    returned,              \* what process_single_email returned for the email
    order_details,         \* rows written to order_details.csv (<<>>: not written)
    saved_contexts,        \* failure contexts written to the job record, per write
    cid_calls,             \* collaborators extract_customer_id called for the email
    orders_to_insert,      \* tidy_emails_task: orders read back from order_details.csv
    export_result,         \* what export_to_database returned
    batch,                 \* rows handed to insert_orders_batch
    requests,              \* where each approve request is in approve_job
    tidy_enqueued,         \* number of tidy_emails_task.delay calls
    tidy_runs,             \* number of tidy_emails_task runs
    committed,             \* the batches insert_orders_batch committed, in order
    fn,                    \* the function under study in a single-function run
    args,                  \* its arguments
    ret,                   \* the values it returned, one per call
    normalized_customers_cache,  \* DatabaseHelper._normalized_customers_cache
    thread_pc,             \* where each thread is in fuzzy_match_customer
    registry_loads,        \* registry loads that _initialize_customer_cache completed
    max_retries,           \* AnthropicHelper.max_retries
    attempt,               \* loop variable of call_with_retry
    api_calls,             \* outcomes of client.messages.create, one per call
    call_outcome,          \* how call_with_retry ended
    sleeps                 \* arguments of time.sleep in call_with_retry, in order

approveVars == <<requests, tidy_enqueued, tidy_runs, committed>>
exportVars  == <<orders_to_insert, export_result, batch, approveVars>>
harnessVars == <<fn, args, ret>>
cacheVars   == <<normalized_customers_cache, thread_pc, registry_loads>>
retryVars   == <<max_retries, attempt, api_calls, call_outcome, sleeps>>
sideVars    == <<harnessVars, cacheVars, retryVars>>

pipelineVars ==
    <<jobStatus, pc, extracted_emails, idx, order_number, all_orders,
      all_failure_contexts, message_id, customer, order_lines, futures,
      yield_order, results, calls, returned, order_details, saved_contexts,
      cid_calls, exportVars>>

vars == <<pipelineVars, sideVars>>

jobVars   == <<jobStatus, extracted_emails, order_details, saved_contexts>>
accVars   == <<order_number, all_orders, all_failure_contexts, returned>>
emailVars == <<idx, message_id, customer, order_lines, calls>>
poolVars  == <<futures, yield_order, results>>

NoFutures == [f \in FieldSet |-> [state |-> "none"]]
NoCustomer == [customer_id |-> None, customer_name |-> None]

email == extracted_emails[idx]

\* no export has run
NoApproveRun ==
    requests = <<>> /\ tidy_enqueued = 0 /\ tidy_runs = 0 /\ committed = <<>>
NoExport ==
    /\ orders_to_insert = <<>> /\ export_result = NoneDict /\ batch = <<>>
    /\ NoApproveRun

\* the variables of the single-function runs, the cache run and the retry run
\* when the run is about something else
NoHarness == fn = None /\ args = NoneDict /\ ret = <<>>
NoCacheRun ==
    /\ normalized_customers_cache = NoneDict
    /\ thread_pc = NoneDict
    /\ registry_loads = 0
NoRetryRun ==
    /\ max_retries = 0
    /\ attempt = 0
    /\ api_calls = <<>>
    /\ call_outcome = NoneDict
    /\ sleeps = <<>>

\* what the submitted callable returns for the current email
TaskResult(f) ==
    CASE f = "reference_no"     -> extract_reference_no(email.reference_response)
      [] f = "valve"            -> detect_valve_request(email.valve_response,
                                                        Len(order_lines))
      [] f = "delivery_address" -> extract_delivery_address(email.address_response,
                                                            customer.customer_id,
                                                            email.known_addresses)
      [] f = "cpsd"             -> extract_cpsd(email.cpsd_response)
      [] f = "options"          -> extract_options(email.options_response, order_lines,
                                                   email.option_row)

InitWith(emails) ==
    /\ extracted_emails = emails
    /\ jobStatus = "pending"
    /\ pc = "start"
    /\ idx = 0
    /\ order_number = 1
    /\ all_orders = <<>>
    /\ all_failure_contexts = <<>>
    /\ message_id = None
    /\ customer = NoCustomer
    /\ order_lines = <<>>
    /\ futures = NoFutures
    /\ yield_order = <<>>
    /\ results = NoneDict
    /\ calls = {}
    /\ returned = NoneDict
    /\ order_details = <<>>
    /\ saved_contexts = <<>>
    /\ cid_calls = <<>>
    /\ NoExport

\* a job of up to MaxEmails emails
Init ==
    /\ \E emails \in SeqsUpTo(JobEmails, MaxEmails) : InitWith(emails)
    /\ NoHarness /\ NoCacheRun /\ NoRetryRun

\* a job of one email, every phase-3 field populated
InitEmail ==
    /\ \E e \in RichEmails : InitWith(<<e>>)
    /\ NoHarness /\ NoCacheRun /\ NoRetryRun

\* process_single_email at the start of phase 4 for an email with n product
\* lines, c dates, r references and the valve list v, the five futures done
InitAlign ==
    \E n \in 1..MaxLines, c \in 0..MaxList, r \in 0..MaxList,
       v \in SeqsUpTo(OracleValves, MaxList) :
      /\ extracted_emails = <<FullEmail(n, c, r, v)>>
      /\ jobStatus = "running"
      /\ pc = "phase4"
      /\ idx = 1
      /\ order_number = 1
      /\ all_orders = <<>>
      /\ all_failure_contexts = <<>>
      /\ message_id = extracted_emails[1].message_id
      /\ customer = [customer_id   |-> DirectCustomer.customer_id,
                     customer_name |-> DirectCustomer.customer_name]
      /\ order_lines = extract_sku_and_quantity(extracted_emails[1].sku_response).order_lines
      /\ futures = [f \in FieldSet |-> [state |-> "returned", result |-> TaskResult(f)]]
      /\ yield_order = FIELDS
      /\ results = [f \in FieldSet |-> futures[f].result]
      /\ calls = {"customer_id", "sku"} \cup FieldSet
      /\ returned = NoneDict
      /\ order_details = <<>>
      /\ saved_contexts = <<>>
      /\ cid_calls = <<>>
      /\ NoExport
      /\ NoHarness /\ NoCacheRun /\ NoRetryRun

\* --------------------------------------------------------- extract_data_task
\* lines 331-352: status running, load the emails, return early when none
TaskStart ==
    /\ pc = "start"
    /\ jobStatus' = "running"
    /\ pc' = IF Len(extracted_emails) = 0 THEN "returned" ELSE "loop"
    /\ UNCHANGED <<extracted_emails, order_details, saved_contexts,
                   accVars, emailVars, poolVars>>
    /\ UNCHANGED <<cid_calls, exportVars, sideVars>>

\* update_job_status raises before the status is written, or load_json raises
\* after it
TaskStartRaises ==
    /\ pc = "start"
    /\ jobStatus' \in {jobStatus, "running"}
    /\ pc' = "fatal"
    /\ UNCHANGED <<extracted_emails, order_details, saved_contexts,
                   accVars, emailVars, poolVars>>
    /\ UNCHANGED <<cid_calls, exportVars, sideVars>>

\* lines 377-390: next email of the for loop, or leave the loop
LoopNext ==
    /\ pc = "loop"
    /\ IF idx < Len(extracted_emails)
       THEN /\ idx' = idx + 1
            /\ message_id' = IF extracted_emails[idx + 1].message_id \in {None, ""}
                             THEN "missing_" \o ToString(idx + 1)
                             ELSE extracted_emails[idx + 1].message_id
            /\ pc' = "phase1"
       ELSE /\ pc' = "save_csv"
            /\ UNCHANGED <<idx, message_id>>
    /\ customer' = NoCustomer
    /\ order_lines' = <<>>
    /\ calls' = {}
    /\ futures' = NoFutures
    /\ yield_order' = <<>>
    /\ results' = NoneDict
    /\ returned' = NoneDict
    /\ UNCHANGED <<jobVars, order_number, all_orders, all_failure_contexts>>
    /\ cid_calls' = <<>>
    /\ UNCHANGED <<exportVars, sideVars>>

\* faulty variant: only an email that produced no failure context advances the
\* order number
ReturnToLoopSkipsFailures(lines, contexts) ==
    /\ returned' = [order_lines |-> lines, failure_contexts |-> contexts]
    /\ all_orders' = all_orders \o lines
    /\ all_failure_contexts' = all_failure_contexts \o contexts
    /\ order_number' = IF contexts = <<>> THEN order_number + 1 ELSE order_number
    /\ pc' = "loop"

\* lines 394-406: process_single_email returned (lines, contexts)
ReturnToLoop(lines, contexts) ==
    /\ returned' = [order_lines |-> lines, failure_contexts |-> contexts]
    /\ all_orders' = all_orders \o lines
    /\ all_failure_contexts' = all_failure_contexts \o contexts
    /\ order_number' = order_number + 1
    /\ pc' = "loop"

\* update_job_progress_with_message raises inside process_single_email
ProgressRaises ==
    /\ pc \in {"phase1", "phase2", "phase3"}
    /\ pc' = "handler"
    /\ UNCHANGED <<jobVars, accVars, emailVars, poolVars>>
    /\ UNCHANGED <<cid_calls, exportVars, sideVars>>

\* faulty variant: the failure test asks for a failure context next to the error
Phase1FailedNeedsContext(customer_result) ==
    /\ Get(customer_result, "error", None) \notin {None, ""}
    /\ "failure_context" \in DOMAIN customer_result

\* the condition of line 118
Phase1Failed(customer_result) ==
    \/ Get(customer_result, "error", None) \notin {None, ""}
    \/ Get(customer_result, "customer_id", None) \in {None, ""}

\* lines 97-147
Phase1 ==
    /\ pc = "phase1"
    /\ calls' = calls \cup {"customer_id"}
    /\ LET customer_result == extract_customer_id(email.customer_response,
                                                  email.fuzzy, email.fallback_result)
       IN  IF Phase1Failed(customer_result)
           THEN /\ ReturnToLoop(
                     <<FailureStub(order_number, None, None, message_id,
                                   Get(customer_result, "error", "Unknown error"))>>,
                     CapturedContexts(customer_result,
                                      [order_number |-> order_number,
                                       entry_id |-> message_id]))
                /\ UNCHANGED customer
           ELSE /\ customer' = [customer_id   |-> customer_result.customer_id,
                                customer_name |-> customer_result.customer_name]
                /\ pc' = "phase2"
                /\ UNCHANGED accVars
    /\ UNCHANGED <<jobVars, idx, message_id, order_lines, poolVars>>
    /\ cid_calls' = extract_customer_id_calls(email.customer_response, email.fuzzy)
    /\ UNCHANGED <<exportVars, sideVars>>

\* the condition of line 158
Phase2Failed(sku_result) ==
    \/ Get(sku_result, "error", None) \notin {None, ""}
    \/ Len(Get(sku_result, "order_lines", <<>>)) = 0

\* lines 149-188
Phase2 ==
    /\ pc = "phase2"
    /\ calls' = calls \cup {"sku"}
    /\ LET sku_result == extract_sku_and_quantity(email.sku_response)
       IN  IF Phase2Failed(sku_result)
           THEN /\ ReturnToLoop(
                     <<FailureStub(order_number, customer.customer_id,
                                   customer.customer_name, message_id,
                                   Get(sku_result, "error", "Unknown error"))>>,
                     CapturedContexts(sku_result,
                                      [order_number  |-> order_number,
                                       entry_id      |-> message_id,
                                       customer_id   |-> customer.customer_id,
                                       customer_name |-> customer.customer_name]))
                /\ UNCHANGED order_lines
           ELSE /\ order_lines' = sku_result.order_lines
                /\ pc' = "phase3"
                /\ UNCHANGED accVars
    /\ UNCHANGED <<jobVars, idx, message_id, customer, poolVars>>
    /\ UNCHANGED <<cid_calls, exportVars, sideVars>>

\* ------------------------------------------------- phase 3: the executor
\* lines 190-198: progress update, then ThreadPoolExecutor(max_workers=5)
Phase3Begin ==
    /\ pc = "phase3"
    /\ pc' = "submit"
    /\ UNCHANGED <<jobVars, accVars, emailVars, poolVars>>
    /\ UNCHANGED <<cid_calls, exportVars, sideVars>>

Submitted == {f \in FieldSet : futures[f].state # "none"}
Running   == {f \in FieldSet : futures[f].state = "running"}

\* lines 199-205: executor.submit, in source order
Submit ==
    /\ pc = "submit"
    /\ LET f == FIELDS[Cardinality(Submitted) + 1] IN
         /\ futures' = [futures EXCEPT ![f] = [state |-> "pending"]]
         /\ calls' = calls \cup {f}
         /\ pc' = IF Cardinality(Submitted) + 1 = Len(FIELDS)
                  THEN "as_completed" ELSE "submit"
    /\ UNCHANGED <<jobVars, accVars, idx, message_id, customer, order_lines,
                   yield_order, results>>
    /\ UNCHANGED <<cid_calls, exportVars, sideVars>>

\* a worker thread is free to take a queued work item
WorkerFree == Cardinality(Running) < max_workers

Start(f) ==
    /\ futures[f].state = "pending"
    /\ WorkerFree
    /\ futures' = [futures EXCEPT ![f] = [state |-> "running"]]
    /\ UNCHANGED <<jobVars, accVars, emailVars, pc, yield_order, results>>
    /\ UNCHANGED <<cid_calls, exportVars, sideVars>>

Finish(f) ==
    /\ futures[f].state = "running"
    /\ \/ futures' = [futures EXCEPT ![f] = [state |-> "returned",
                                            result |-> TaskResult(f)]]
       \/ futures' = [futures EXCEPT ![f] = [state |-> "raised"]]
    /\ UNCHANGED <<jobVars, accVars, emailVars, pc, yield_order, results>>
    /\ UNCHANGED <<cid_calls, exportVars, sideVars>>

\* as_completed yields a future only once it has finished
Completed(f) == futures[f].state \in {"returned", "raised"}

\* faulty variant: the except branch of the loop stores nothing
StoreResultSkipsRaised(res, field_name, future) ==
    IF future.state = "returned" THEN (field_name :> future.result) @@ res ELSE res

\* faulty variant: results are filed under the field names in submission order, by
\* arrival position
StoreResultByArrival(res, field_name, future) ==
    (FIELDS[Cardinality(DOMAIN res) + 1] :>
       IF future.state = "returned" THEN future.result
       ELSE ExceptionResult(field_name)) @@ res

\* lines 208-232: one iteration of the as_completed loop
StoreResult(res, field_name, future) ==
    (field_name :> IF future.state = "returned" THEN future.result
                   ELSE ExceptionResult(field_name)) @@ res

Yielded == {yield_order[i] : i \in 1..Len(yield_order)}

Collect(f) ==
    /\ pc = "as_completed"
    /\ f \in Submitted \ Yielded
    /\ Completed(f)
    /\ yield_order' = Append(yield_order, f)
    /\ results' = StoreResult(results, f, futures[f])
    /\ UNCHANGED <<jobVars, accVars, emailVars, pc, futures>>
    /\ UNCHANGED <<cid_calls, exportVars, sideVars>>

\* faulty variant: the loop stops at the first completed future and the pool is not joined
LoopExhaustedAfterFirst == Len(yield_order) > 0

\* the loop ends when every submitted future has been yielded; leaving the
\* with block joins the workers
LoopExhausted == Yielded = Submitted

ExitExecutor ==
    /\ pc = "as_completed"
    /\ LoopExhausted
    /\ pc' = "phase4"
    /\ UNCHANGED <<jobVars, accVars, emailVars, poolVars>>
    /\ UNCHANGED <<cid_calls, exportVars, sideVars>>

\* lines 234-317: merge and return; a missing results key is a KeyError
Phase4 ==
    /\ pc = "phase4"
    /\ IF FieldSet \subseteq DOMAIN results
       THEN ReturnToLoop(merged_orders(results, order_lines, order_number,
                                       customer.customer_id, customer.customer_name,
                                       message_id),
                         <<>>)
       ELSE /\ pc' = "handler"
            /\ UNCHANGED accVars
    /\ UNCHANGED <<jobVars, emailVars, poolVars>>
    /\ UNCHANGED <<cid_calls, exportVars, sideVars>>

\* ------------------------------------------- extract_data_task, after an email
PrintRaises(kwargs) == ~(kwargs \subseteq PrintKeywords)

\* lines 408-437: the except branch of the per-email try.  Its first statement
\* is print(..., exc_info=True); the TypeError it raises leaves the for loop.
ExceptHandler ==
    /\ pc = "handler"
    /\ IF PrintRaises({"exc_info"})
       THEN /\ pc' = "fatal"
            /\ UNCHANGED accVars
       ELSE /\ all_orders' = Append(all_orders,
                                    FailureStub(order_number, None, None, message_id,
                                                "exception"))
            /\ all_failure_contexts' =
                 Append(all_failure_contexts,
                        [type |-> "exception", order_number |-> order_number,
                         entry_id |-> message_id, exception_message |-> "exception"])
            /\ order_number' = order_number + 1
            /\ pc' = "loop"
            /\ UNCHANGED returned
    /\ UNCHANGED <<jobVars, emailVars, poolVars>>
    /\ UNCHANGED <<cid_calls, exportVars, sideVars>>

output_columns ==
    {"orderno", "customerid", "customer_name", "sku", "quantity", "reference_no",
     "valve", "delivery_address", "cpsd", "entry_id", "option_sku", "option_qty",
     "telephone_number", "contact_name"}

\* lines 441-457
SaveCsv ==
    /\ pc = "save_csv"
    /\ order_details' = [i \in 1..Len(all_orders) |->
                           [c \in output_columns |-> all_orders[i][c]]]
    /\ pc' = "save_contexts"
    /\ UNCHANGED <<jobStatus, extracted_emails, saved_contexts,
                   accVars, emailVars, poolVars>>
    /\ UNCHANGED <<cid_calls, exportVars, sideVars>>

\* lines 458-460: the write fails and the exception is re-raised
SaveCsvRaises ==
    /\ pc = "save_csv"
    /\ pc' = "fatal"
    /\ UNCHANGED <<jobVars, accVars, emailVars, poolVars>>
    /\ UNCHANGED <<cid_calls, exportVars, sideVars>>

\* faulty variant: a failing write of the contexts is fatal
SaveContextsOrFail ==
    /\ pc = "save_contexts"
    /\ \/ /\ saved_contexts' = IF Len(all_failure_contexts) > 0
                               THEN Append(saved_contexts, all_failure_contexts)
                               ELSE saved_contexts
          /\ pc' = "finish"
       \/ /\ Len(all_failure_contexts) > 0
          /\ UNCHANGED saved_contexts
          /\ pc' = "fatal"
    /\ UNCHANGED <<jobStatus, extracted_emails, order_details,
                   accVars, emailVars, poolVars>>
    /\ UNCHANGED <<cid_calls, exportVars, sideVars>>

\* lines 462-471: one write of the whole list, skipped when it is empty; a
\* failing write is logged and swallowed
SaveContexts ==
    /\ pc = "save_contexts"
    /\ \/ saved_contexts' = IF Len(all_failure_contexts) > 0
                            THEN Append(saved_contexts, all_failure_contexts)
                            ELSE saved_contexts
       \/ /\ Len(all_failure_contexts) > 0
          /\ UNCHANGED saved_contexts
    /\ pc' = "finish"
    /\ UNCHANGED <<jobStatus, extracted_emails, order_details,
                   accVars, emailVars, poolVars>>
    /\ UNCHANGED <<cid_calls, exportVars, sideVars>>

\* lines 473-497
FinishTask ==
    /\ pc = "finish"
    /\ jobStatus' = "awaiting_review_data"
    /\ pc' = "returned"
    /\ UNCHANGED <<extracted_emails, order_details, saved_contexts,
                   accVars, emailVars, poolVars>>
    /\ UNCHANGED <<cid_calls, exportVars, sideVars>>

\* a job-record update of lines 474-491 raises, before or after the status write
FinishRaises ==
    /\ pc = "finish"
    /\ jobStatus' \in {jobStatus, "awaiting_review_data"}
    /\ pc' = "fatal"
    /\ UNCHANGED <<extracted_emails, order_details, saved_contexts,
                   accVars, emailVars, poolVars>>
    /\ UNCHANGED <<cid_calls, exportVars, sideVars>>

\* lines 499-506: fail_job, then re-raise; fail_job itself may raise
FailJob ==
    /\ pc = "fatal"
    /\ jobStatus' \in {"failed", jobStatus}
    /\ pc' = "raised"
    /\ UNCHANGED <<extracted_emails, order_details, saved_contexts,
                   accVars, emailVars, poolVars>>
    /\ UNCHANGED <<cid_calls, exportVars, sideVars>>

\* ------------------------------------------------ approval and database export
\* main.py approve_job, lines 197-276, for an approval that carries no edited
\* orders: order_details.csv stays as the extraction wrote it, the job goes
\* back to running and tidy_emails_task is queued.
Approve ==
    /\ pc = "returned"
    /\ jobStatus = "awaiting_review_data"
    /\ jobStatus' = "running"
    /\ pc' = "tidy_load"
    /\ UNCHANGED <<extracted_emails, order_details, saved_contexts,
                   accVars, emailVars, poolVars>>
    /\ UNCHANGED <<cid_calls, exportVars, sideVars>>

\* pd.notna of a cell read back from the CSV: None is written as an empty
\* cell and read back as NaN
notna(cell) == cell # None

\* task_tidy_emails.py lines 332-350: one CSV row to one order dictionary.
\* Numbers are kept as their decimal strings; orderno is an integer.
row_to_order(row) ==
    [orderno          |-> row.orderno,
     customerid       |-> IF notna(row.customerid) /\ row.customerid # "0"
                          THEN row.customerid ELSE "0",
     customer_name    |-> row.customer_name,
     sku              |-> row.sku,
     quantity         |-> IF notna(row.quantity) THEN row.quantity ELSE "0",
     reference_no     |-> row.reference_no,
     valve            |-> IF notna(row.valve) THEN row.valve ELSE "no",
     delivery_address |-> row.delivery_address,
     cpsd             |-> row.cpsd,
     entry_id         |-> row.entry_id,
     option_sku       |-> row.option_sku,
     option_qty       |-> row.option_qty,
     telephone_number |-> row.telephone_number,
     contact_name     |-> row.contact_name,
     job_id           |-> "job"]

\* int(order["quantity"]) of a decimal string
int(s) == CHOOSE n \in 0..9 : ToString(n) = s

\* faulty variant: a missing sku is let through
ValidateOrderNoRequired(order) ==
    IF order.valve \notin VALID_VALVE_VALUES
    THEN <<FALSE, "Invalid valve value">>
    ELSE <<TRUE, "">>

\* db_export.py lines 13-49.  orderno is an integer after row_to_order and is
\* never None; the other required fields are tested in the order of line 25.
validate_order(order) ==
    IF order.customerid = None THEN <<FALSE, "Missing required field: customerid">>
    ELSE IF order.sku = None THEN <<FALSE, "Missing required field: sku">>
    ELSE IF order.quantity = None THEN <<FALSE, "Missing required field: quantity">>
    ELSE IF Len(order.sku) # 13 THEN <<FALSE, "Invalid SKU length">>
    ELSE IF int(order.quantity) <= 0 THEN <<FALSE, "Invalid quantity">>
    ELSE IF order.valve \notin VALID_VALVE_VALUES
         THEN <<FALSE, "Invalid valve value">>
    ELSE <<TRUE, "">>

\* db_export.py lines 101-117: the order mapped to the database columns
order_data(order) ==
    ("13DigitAlias" :> order.sku) @@ ("orderqty" :> order.quantity) @@
    ("alternative_cpsd" :> order.cpsd) @@
    [c \in {"orderno", "customerid", "customer_name", "reference_no", "valve",
            "delivery_address", "entry_id", "option_sku", "option_qty",
            "telephone_number", "contact_name", "job_id"} |-> order[c]]

Failed(order, error_type, error_message) ==
    ("error_type" :> error_type) @@ ("error_message" :> error_message) @@ order

\* db_export.py lines 87-119: the validation loop
valid_orders(orders) == SelectSeq(orders, LAMBDA o : validate_order(o)[1])

validation_failures(orders) ==
    LET bad == SelectSeq(orders, LAMBDA o : ~validate_order(o)[1])
    IN  [i \in 1..Len(bad) |->
           Failed(bad[i], "Validation Error", validate_order(bad[i])[2])]

\* db_export.py lines 52-176; inserted is what insert_orders_batch does with
\* the batch: returns True ("ok"), returns False ("false") or raises ("raises")
export_to_database(orders, inserted) ==
    LET valid  == valid_orders(orders)
        failed == validation_failures(orders)
    IN  IF Len(valid) = 0 \/ inserted = "ok"
        THEN [success_count |-> Len(valid), failed_count |-> Len(failed),
              failed_orders |-> failed, error |-> None]
        ELSE IF inserted = "false"
        THEN [success_count |-> 0, failed_count |-> Len(valid),
              failed_orders |-> failed \o
                  [i \in 1..Len(valid) |->
                     Failed(valid[i], "Database Insert Error", "Batch insert failed")],
              error |-> None]
        ELSE [success_count |-> 0, failed_count |-> Len(failed),
              failed_orders |-> failed, error |-> "insert raised"]

\* task_tidy_emails.py lines 318-352: status, load_csv, the row conversion
TidyLoad ==
    /\ pc = "tidy_load"
    /\ orders_to_insert' = [i \in 1..Len(order_details) |->
                              row_to_order(order_details[i])]
    /\ pc' = "export"
    /\ UNCHANGED <<jobVars, accVars, emailVars, poolVars, cid_calls,
                   export_result, batch, approveVars, sideVars>>

\* task_tidy_emails.py line 357 with db_export.py lines 52-176: batch is the
\* argument of the one insert_orders_batch call, made only for a non-empty list
ExportToDatabase ==
    /\ pc = "export"
    /\ \E inserted \in {"ok", "false", "raises"} :
          export_result' = export_to_database(orders_to_insert, inserted)
    /\ batch' = [i \in 1..Len(valid_orders(orders_to_insert)) |->
                   order_data(valid_orders(orders_to_insert)[i])]
    /\ pc' = "exported"
    /\ UNCHANGED <<jobVars, accVars, emailVars, poolVars, cid_calls,
                   orders_to_insert, approveVars, sideVars>>

\* task_tidy_emails.py lines 363-398: reports, email filing, complete_job
TidyFinish ==
    /\ pc = "exported"
    /\ jobStatus' = "completed"
    /\ pc' = "completed"
    /\ UNCHANGED <<extracted_emails, order_details, saved_contexts,
                   accVars, emailVars, poolVars>>
    /\ UNCHANGED <<cid_calls, exportVars, sideVars>>

\* task_tidy_emails.py lines 400-405: load_csv, the report or the email filing
\* raises; fail_job, then re-raise
TidyRaises ==
    /\ pc \in {"tidy_load", "exported"}
    /\ jobStatus' \in {"failed", jobStatus}
    /\ pc' = "raised"
    /\ UNCHANGED <<extracted_emails, order_details, saved_contexts,
                   accVars, emailVars, poolVars>>
    /\ UNCHANGED <<cid_calls, exportVars, sideVars>>

Next ==
    \/ TaskStart
    \/ TaskStartRaises
    \/ LoopNext
    \/ ProgressRaises
    \/ Phase1
    \/ Phase2
    \/ Phase3Begin
    \/ Submit
    \/ \E f \in FieldSet : Start(f)
    \/ \E f \in FieldSet : Finish(f)
    \/ \E f \in FieldSet : Collect(f)
    \/ ExitExecutor
    \/ Phase4
    \/ ExceptHandler
    \/ SaveCsv
    \/ SaveCsvRaises
    \/ SaveContexts
    \/ FinishTask
    \/ FinishRaises
    \/ FailJob
    \/ Approve
    \/ TidyLoad
    \/ ExportToDatabase
    \/ TidyFinish
    \/ TidyRaises

Spec == Init /\ [][Next]_vars

SpecEmail == InitEmail /\ [][Next]_vars

\* the phase-4 merge alone, over every combination of list lengths
SpecAlign == InitAlign /\ [][Phase4]_vars

\* the pipeline is not running
PipelineIdle == InitWith(<<>>)

\* ============================================== AnthropicHelper.call_with_retry
\* max_retries is int(os.getenv("MAX_RETRIES", "3")): any integer the
\* environment holds.  A reply is what one client.messages.create call gives.
MaxRetries == 3

Replies ==
    {"json", "fenced_json", "fenced_plain", "fenced_garbage", "garbage",
     "api_error", "timeout"}

ApiRaises(reply) == reply \in {"api_error", "timeout"}

\* lines 86-105: what the parse of a reply's text returns, NoneDict for a raise
\* inside the try block
parse_reply(reply, response_format) ==
    IF response_format = "text" THEN [content |-> reply]
    ELSE IF reply \in {"json", "fenced_json", "fenced_plain"}
         THEN [parsed |-> reply]
    ELSE NoneDict

AttemptSucceeds(reply) ==
    /\ ~ApiRaises(reply)
    /\ parse_reply(reply, args.response_format) # NoneDict

InitRetry ==
    /\ PipelineIdle
    /\ NoCacheRun
    /\ fn = "call_with_retry"
    /\ args \in [response_format : {"json", "text"}]
    /\ ret = <<>>
    /\ max_retries \in 0..MaxRetries
    /\ attempt = 1
    /\ api_calls = <<>>
    /\ call_outcome = NoneDict
    /\ sleeps = <<>>

\* faulty variant: the same wait after every failure
WaitFixed(failed_attempt) == 2

\* line 110: wait_time = 2 ** attempt
wait_time(failed_attempt) == 2 ^ failed_attempt

InLoop == call_outcome = NoneDict /\ attempt <= max_retries

\* lines 72-105: the call and the parse succeed; the record is returned
AttemptReturns ==
    /\ InLoop
    /\ \E reply \in Replies :
         /\ AttemptSucceeds(reply)
         /\ api_calls' = Append(api_calls, reply)
         /\ call_outcome' = [kind |-> "returned",
                             value |-> parse_reply(reply, args.response_format)]
    /\ UNCHANGED <<pipelineVars, harnessVars, cacheVars, max_retries, attempt, sleeps>>

\* lines 107-113: the attempt raised and attempt < max_retries: sleep, go on
AttemptRetries ==
    /\ InLoop
    /\ attempt < max_retries
    /\ \E reply \in Replies :
         /\ ~AttemptSucceeds(reply)
         /\ api_calls' = Append(api_calls, reply)
    /\ sleeps' = Append(sleeps, wait_time(attempt))
    /\ attempt' = attempt + 1
    /\ UNCHANGED <<pipelineVars, harnessVars, cacheVars, max_retries, call_outcome>>

\* lines 114-116: the last attempt raised: its exception is re-raised
AttemptRaises ==
    /\ InLoop
    /\ ~(attempt < max_retries)
    /\ \E reply \in Replies :
         /\ ~AttemptSucceeds(reply)
         /\ api_calls' = Append(api_calls, reply)
         /\ call_outcome' = [kind |-> "raised", attempt |-> attempt,
                             exception |-> reply]
    /\ UNCHANGED <<pipelineVars, harnessVars, cacheVars, max_retries, attempt, sleeps>>

\* line 72 with nothing after the loop: range(1, max_retries + 1) is spent
\* without a return or a raise, and the function returns None
LoopFallsThrough ==
    /\ call_outcome = NoneDict
    /\ ~(attempt <= max_retries)
    /\ call_outcome' = [kind |-> "returned", value |-> NoneDict]
    /\ UNCHANGED <<pipelineVars, harnessVars, cacheVars, max_retries, attempt,
                   api_calls, sleeps>>

NextRetry ==
    \/ AttemptReturns
    \/ AttemptRetries
    \/ AttemptRaises
    \/ LoopFallsThrough

SpecRetry == InitRetry /\ [][NextRetry]_vars

\* ============================================================== construct_sku
\* sku_extraction.py lines 134-163, on integer dimensions.
\* str(n).zfill(width): zeros on the left up to width, after the sign if any
zfill(n, width) ==
    LET digits == ToString(IF n < 0 THEN -n ELSE n)
        sign   == IF n < 0 THEN "-" ELSE ""
        room   == width - Len(sign) - Len(digits)
        zeros  == IF room >= 2 THEN "00" ELSE IF room = 1 THEN "0" ELSE ""
    IN  sign \o zeros \o digits

\* faulty variant: the dimensions are emitted in the order given
ConstructSkuNoSwap(family_prefix, length, width, color_code) ==
    LET sku == family_prefix \o zfill(length, 3) \o zfill(width, 3) \o color_code
    IN  IF Len(sku) # 13 THEN None ELSE sku

construct_sku(family_prefix, length, width, color_code) ==
    LET swap       == width > length
        length_    == IF swap THEN width ELSE length
        width_     == IF swap THEN length ELSE width
        length_str == zfill(length_, 3)
        width_str  == zfill(width_, 3)
        sku        == family_prefix \o length_str \o width_str \o color_code
    IN  IF Len(sku) # 13 THEN None ELSE sku

Dimensions == {-5, 0, 1, 9, 10, 80, 99, 100, 140, 999, 1000}
FamilyPrefixes == {"NAT", "NA", "NATU"}
ColorCodes == {"MOKA", "MOK", "BLANC"}

InitSku ==
    /\ PipelineIdle /\ NoCacheRun /\ NoRetryRun
    /\ fn = "construct_sku"
    /\ ret = <<>>
    /\ args \in [family_prefix : FamilyPrefixes, length : Dimensions,
                 width : Dimensions, color_code : ColorCodes]

ConstructSkuCall ==
    /\ fn = "construct_sku"
    /\ ret = <<>>
    /\ ret' = <<construct_sku(args.family_prefix, args.length, args.width,
                              args.color_code)>>
    /\ UNCHANGED <<pipelineVars, fn, args, cacheVars, retryVars>>

SpecSku == InitSku /\ [][ConstructSkuCall]_vars

\* ==================================================== normalize_business_name
\* text_normalizer.py lines 40-90 over texts as sequences of characters.  A
\* character is a one-letter string; the accented letters are written "e'",
\* "E'", "o'", "O'" (acute) and "n~", "N~" (tilde).
MaxFragments == 3

LowerLetters ==
    <<"a", "b", "c", "d", "e", "f", "g", "h", "i", "j", "k", "l", "m",
      "n", "o", "p", "q", "r", "s", "t", "u", "v", "w", "x", "y", "z",
      "e'", "o'", "n~">>
UpperLetters ==
    <<"A", "B", "C", "D", "E", "F", "G", "H", "I", "J", "K", "L", "M",
      "N", "O", "P", "Q", "R", "S", "T", "U", "V", "W", "X", "Y", "Z",
      "E'", "O'", "N~">>

\* str.lower, one character
lower_char(c) ==
    IF \E i \in 1..Len(UpperLetters) : UpperLetters[i] = c
    THEN LowerLetters[CHOOSE i \in 1..Len(UpperLetters) : UpperLetters[i] = c]
    ELSE c

lower(text) == [i \in 1..Len(text) |-> lower_char(text[i])]

\* lines 19-37: NFD, then the combining marks dropped
remove_accents(text) ==
    [i \in 1..Len(text) |->
       CASE text[i] = "e'" -> "e" [] text[i] = "E'" -> "E"
         [] text[i] = "o'" -> "o" [] text[i] = "O'" -> "O"
         [] text[i] = "n~" -> "n" [] text[i] = "N~" -> "N"
         [] OTHER -> text[i]]

\* str.strip
RECURSIVE lstrip(_)
lstrip(text) ==
    IF text # <<>> /\ text[1] = " " THEN lstrip(Tail(text)) ELSE text

RECURSIVE rstrip(_)
rstrip(text) ==
    IF text # <<>> /\ text[Len(text)] = " "
    THEN rstrip(SubSeq(text, 1, Len(text) - 1)) ELSE text

strip(text) == rstrip(lstrip(text))

\* \w of the re module
IsWordChar(c) ==
    \E i \in 1..Len(LowerLetters) : c \in {LowerLetters[i], UpperLetters[i]}

\* the character before position p + 1, "" outside the text
At(text, p) == IF p \in 1..Len(text) THEN text[p] ELSE ""

\* \b between positions p - 1 and p
Boundary(text, p) == IsWordChar(At(text, p - 1)) # IsWordChar(At(text, p))

\* a lower-case literal at position p, re.IGNORECASE
LiteralAt(text, p, literal) ==
    /\ p + Len(literal) - 1 <= Len(text)
    /\ \A k \in 1..Len(literal) : lower_char(text[p + k - 1]) = literal[k]

Chars(word) ==
    CASE word = "almacenes"      -> <<"a","l","m","a","c","e","n","e","s">>
      [] word = "almacen"        -> <<"a","l","m","a","c","e","n">>
      [] word = "suministros"    -> <<"s","u","m","i","n","i","s","t","r","o","s">>
      [] word = "materiales"     -> <<"m","a","t","e","r","i","a","l","e","s">>
      [] word = "distribuciones" -> <<"d","i","s","t","r","i","b","u","c","i","o","n","e","s">>
      [] word = "distribuidora"  -> <<"d","i","s","t","r","i","b","u","i","d","o","r","a">>
      [] word = "distribuidor"   -> <<"d","i","s","t","r","i","b","u","i","d","o","r">>
      [] word = "construcciones" -> <<"c","o","n","s","t","r","u","c","c","i","o","n","e","s">>
      [] word = "construccion"   -> <<"c","o","n","s","t","r","u","c","c","i","o","n">>
      [] word = "comercial"      -> <<"c","o","m","e","r","c","i","a","l">>
      [] word = "comercio"       -> <<"c","o","m","e","r","c","i","o">>
      [] word = "antonia"        -> <<"a","n","t","o","n","i","a">>
      [] word = "antonio"        -> <<"a","n","t","o","n","i","o">>
      [] word = "barroso"        -> <<"b","a","r","r","o","s","o">>
      [] word = "garcia"         -> <<"g","a","r","c","i","a">>
      [] word = "jose"           -> <<"j","o","s","e">>
      [] word = "josefa"         -> <<"j","o","s","e","f","a">>
      [] word = "maria"          -> <<"m","a","r","i","a">>
      [] word = "mario"          -> <<"m","a","r","i","o">>

\* spanish_business_synonyms.py lines 12-28, in dict order
BUSINESS_TYPE_SYNONYMS ==
    << <<"almacenes", "materiales">>, <<"almacen", "materiales">>,
       <<"suministros", "materiales">>, <<"distribuciones", "distribuidor">>,
       <<"distribuidora", "distribuidor">>, <<"construcciones", "construccion">>,
       <<"comercial", "comercio">> >>

\* spanish_business_synonyms.py lines 32-46.  Every pattern is \b, then for
\* comma = TRUE a comma and \s*, then the letters with a period after each but
\* the last, then \.?\b
LEGAL_ENTITY_PATTERNS ==
    << [comma |-> FALSE, letters |-> <<"s", "l", "u">>, replacement |-> <<"S", "L">>],
       [comma |-> FALSE, letters |-> <<"s", "l">>,      replacement |-> <<"S", "L">>],
       [comma |-> TRUE,  letters |-> <<"s", "l">>,      replacement |-> <<" ", "S", "L">>],
       [comma |-> FALSE, letters |-> <<"s", "a">>,      replacement |-> <<"S", "A">>],
       [comma |-> TRUE,  letters |-> <<"s", "a">>,      replacement |-> <<" ", "S", "A">>],
       [comma |-> FALSE, letters |-> <<"s", "c">>,      replacement |-> <<"S", "C">>],
       [comma |-> FALSE, letters |-> <<"s", "l", "l">>, replacement |-> <<"S", "L">>] >>

\* S\.L\.U as a literal
Dotted(letters) ==
    [i \in 1..(2 * Len(letters) - 1) |->
       IF i % 2 = 1 THEN letters[(i + 1) \div 2] ELSE "."]

\* the end of the greedy \s* that starts at p
RECURSIVE SkipSpaces(_, _)
SkipSpaces(text, p) ==
    IF At(text, p) = " " THEN SkipSpaces(text, p + 1) ELSE p

\* length of the match of r'\b' + re.escape(synonym_from) + r'\b' at p, 0 for none
SynonymMatch(text, p, synonym_from) ==
    IF /\ Boundary(text, p)
       /\ LiteralAt(text, p, synonym_from)
       /\ Boundary(text, p + Len(synonym_from))
    THEN Len(synonym_from) ELSE 0

\* length of the match of a legal-entity pattern at p, 0 for none: the
\* optional period is taken if a \b follows it, else left out if a \b
\* follows the last letter
LegalMatch(text, p, pattern) ==
    LET start == IF pattern.comma
                 THEN IF At(text, p) = "," THEN SkipSpaces(text, p + 1) ELSE 0
                 ELSE p
        body  == Dotted(pattern.letters)
        q     == start + Len(body)
    IN  IF ~(Boundary(text, p) /\ start > 0 /\ LiteralAt(text, start, body))
        THEN 0
        ELSE IF At(text, q) = "." /\ Boundary(text, q + 1) THEN q + 1 - p
        ELSE IF Boundary(text, q) THEN q - p
        ELSE 0

\* re.sub: leftmost matches, left to right, not overlapping
RECURSIVE SubSynonym(_, _, _, _)
SubSynonym(text, p, synonym_from, synonym_to) ==
    IF p > Len(text) THEN <<>>
    ELSE LET n == SynonymMatch(text, p, synonym_from)
         IN  IF n > 0
             THEN synonym_to \o SubSynonym(text, p + n, synonym_from, synonym_to)
             ELSE <<text[p]>> \o SubSynonym(text, p + 1, synonym_from, synonym_to)

RECURSIVE SubLegal(_, _, _)
SubLegal(text, p, pattern) ==
    IF p > Len(text) THEN <<>>
    ELSE LET n == LegalMatch(text, p, pattern)
         IN  IF n > 0
             THEN pattern.replacement \o SubLegal(text, p + n, pattern)
             ELSE <<text[p]>> \o SubLegal(text, p + 1, pattern)

\* lines 67-70
RECURSIVE ApplySynonyms(_, _)
ApplySynonyms(text, k) ==
    IF k > Len(BUSINESS_TYPE_SYNONYMS) THEN text
    ELSE ApplySynonyms(SubSynonym(text, 1, Chars(BUSINESS_TYPE_SYNONYMS[k][1]),
                                  Chars(BUSINESS_TYPE_SYNONYMS[k][2])), k + 1)

\* lines 73-74
RECURSIVE ApplyLegal(_, _)
ApplyLegal(text, k) ==
    IF k > Len(LEGAL_ENTITY_PATTERNS) THEN text
    ELSE ApplyLegal(SubLegal(text, 1, LEGAL_ENTITY_PATTERNS[k]), k + 1)

\* line 77
ReplaceCommas(text) == [i \in 1..Len(text) |-> IF text[i] = "," THEN " " ELSE text[i]]

\* line 78: re.sub(r'\s+', ' ', normalized)
RECURSIVE CollapseSpaces(_)
CollapseSpaces(text) ==
    IF text = <<>> THEN <<>>
    ELSE IF text[1] = " "
         THEN <<" ">> \o CollapseSpaces(lstrip(text))
         ELSE <<text[1]>> \o CollapseSpaces(Tail(text))

normalize_business_name(text) ==
    LET step1 == remove_accents(strip(lower(text)))
        step2 == ApplySynonyms(step1, 1)
        step3 == ApplyLegal(step2, 1)
        step4 == CollapseSpaces(ReplaceCommas(step3))
    IN  strip(step4)

\* the pieces business names are put together from
Fragments ==
    { <<"S","o","r","i","a">>, <<"G","a","m","m","a">>, <<" ">>, <<",">>,
      <<"S",".","L",".">>, <<"s",".","l">>, <<"S",".","A",".">>,
      <<"S",".","L",".","U",".">>, <<"S",".","L",".","L",".">>,
      <<"S",".","C",".">>, <<"S","L">>,
      <<"A","l","m","a","c","e'","n">>, <<"C","o","m","e","r","c","i","a","l">> }

RECURSIVE Concat(_)
Concat(fragments) ==
    IF fragments = <<>> THEN <<>> ELSE fragments[1] \o Concat(Tail(fragments))

InitNormalize ==
    /\ PipelineIdle /\ NoCacheRun /\ NoRetryRun
    /\ fn = "normalize_business_name"
    /\ ret = <<>>
    /\ \E n \in 0..MaxFragments : \E fragments \in [1..n -> Fragments] :
         args = [text |-> Concat(fragments)]

\* the function applied to the input, then to its own result
NormalizeCall ==
    /\ fn = "normalize_business_name"
    /\ ret = <<>>
    /\ ret' = <<normalize_business_name(args.text)>>
    /\ UNCHANGED <<pipelineVars, fn, args, cacheVars, retryVars>>

NormalizeAgain ==
    /\ fn = "normalize_business_name"
    /\ Len(ret) = 1
    /\ ret' = Append(ret, normalize_business_name(ret[1]))
    /\ UNCHANGED <<pipelineVars, fn, args, cacheVars, retryVars>>

SpecNormalize == InitNormalize /\ [][NormalizeCall \/ NormalizeAgain]_vars

\* ==================================================== normalize_personal_name
\* text_normalizer.py lines 236-303.  A text is a sequence of words and single
\* blanks " " in which no two words are adjacent; the words are lower-case and
\* without accents, as the function's callers pass them.
MaxTokens == 3

Vocabulary ==
    {"antonia", "antonio", "barroso", "garcia", "jose", "josefa", "maria", "mario"}

\* spanish_business_synonyms.py lines 66-110
GenderedPairs ==
    { <<"antonio", "antonia">>, <<"francisco", "francisca">>, <<"jose", "josefa">>,
      <<"juan", "juana">>, <<"carlos", "carla">>, <<"daniel", "daniela">>,
      <<"pablo", "paula">>, <<"angel", "angela">>, <<"manuel", "manuela">>,
      <<"andres", "andrea">>, <<"mario", "maria">>, <<"alejandro", "alejandra">>,
      <<"roberto", "roberta">>, <<"alberto", "alberta">>, <<"fernando", "fernanda">>,
      <<"luis", "luisa">>, <<"miguel", "miguela">>, <<"rafael", "rafaela">>,
      <<"sergio", "sergia">>, <<"diego", "diega">> }

SPANISH_GENDERED_NAMES ==
    [token \in {pair[1] : pair \in GenderedPairs} \cup {pair[2] : pair \in GenderedPairs} |->
       IF \E pair \in GenderedPairs : pair[1] = token
       THEN (CHOOSE pair \in GenderedPairs : pair[1] = token)[2]
       ELSE (CHOOSE pair \in GenderedPairs : pair[2] = token)[1]]

\* the code point order of the lower-case letters
LetterRank(c) == CHOOSE i \in 1..Len(LowerLetters) : LowerLetters[i] = c

\* a < b on str: the first differing character decides, a proper prefix is smaller
StrLess(a, b) ==
    LET sa == Chars(a)
        sb == Chars(b)
    IN  \E k \in 1..Len(sb) :
          /\ k <= Len(sa) + 1
          /\ \A m \in 1..(k - 1) : sa[m] = sb[m]
          /\ \/ k = Len(sa) + 1
             \/ LetterRank(sa[k]) < LetterRank(sb[k])

min(a, b) == IF StrLess(b, a) THEN b ELSE a

\* line 267: text.split()
split(text) == SelectSeq(text, LAMBDA item : item # " ")

\* faulty variant: gendered names are left as they are
NormalizeTokenKeep(token) == token

\* lines 272-280
normalize_token(token) ==
    IF token \in DOMAIN SPANISH_GENDERED_NAMES
    THEN min(token, SPANISH_GENDERED_NAMES[token])
    ELSE token

\* line 284: list.sort
RECURSIVE InsertSorted(_, _)
InsertSorted(sorted, token) ==
    IF sorted = <<>> THEN <<token>>
    ELSE IF StrLess(token, sorted[1]) THEN <<token>> \o sorted
    ELSE <<sorted[1]>> \o InsertSorted(Tail(sorted), token)

RECURSIVE sort(_)
sort(tokens) ==
    IF tokens = <<>> THEN <<>>
    ELSE InsertSorted(sort(SubSeq(tokens, 1, Len(tokens) - 1)), tokens[Len(tokens)])

\* lines 287-292
RECURSIVE unique_tokens(_, _)
unique_tokens(tokens, seen) ==
    IF tokens = <<>> THEN <<>>
    ELSE IF tokens[1] \in seen THEN unique_tokens(Tail(tokens), seen)
    ELSE <<tokens[1]>> \o unique_tokens(Tail(tokens), seen \cup {tokens[1]})

\* sep.join(tokens), sep a run of gap blanks
JoinTokens(tokens, gap) ==
    [i \in 1..(IF tokens = <<>> THEN 0 ELSE Len(tokens) + gap * (Len(tokens) - 1)) |->
       IF (i - 1) % (gap + 1) = 0 THEN tokens[(i - 1) \div (gap + 1) + 1] ELSE " "]

normalize_personal_name(text) ==
    LET tokens            == split(text)
        normalized_tokens == [i \in 1..Len(tokens) |-> normalize_token(tokens[i])]
    IN  JoinTokens(unique_tokens(sort(normalized_tokens), {}), 1)

\* single blanks between the tokens, or a leading blank and double blanks
InitPersonal ==
    /\ PipelineIdle /\ NoCacheRun /\ NoRetryRun
    /\ fn = "normalize_personal_name"
    /\ ret = <<>>
    /\ \E n \in 0..MaxTokens : \E tokens \in [1..n -> Vocabulary] :
         \/ args = [text |-> JoinTokens(tokens, 1)]
         \/ args = [text |-> <<" ">> \o JoinTokens(tokens, 2)]

PersonalCall ==
    /\ fn = "normalize_personal_name"
    /\ ret = <<>>
    /\ ret' = <<normalize_personal_name(args.text)>>
    /\ UNCHANGED <<pipelineVars, fn, args, cacheVars, retryVars>>

PersonalAgain ==
    /\ fn = "normalize_personal_name"
    /\ Len(ret) = 1
    /\ ret' = Append(ret, normalize_personal_name(ret[1]))
    /\ UNCHANGED <<pipelineVars, fn, args, cacheVars, retryVars>>

SpecPersonal == InitPersonal /\ [][PersonalCall \/ PersonalAgain]_vars

\* ======================================================= the score adjustments
\* Scores are in thousandths: 0.10 is 100, 1.0 is 1000.  Keyword lists and
\* token lists are used by the code only through set(...), and are sets here.
MaxShared == 3

BaseScores == {0, 10, 30, 500, 850, 900, 950, 970, 1000}

Min2(a, b) == IF a <= b THEN a ELSE b
Max2(a, b) == IF a >= b THEN a ELSE b

\* spanish_business_synonyms.py: members of the three fixed lists
BuyingKeywords == {"gamma", "grupo", "gremio"}
COMMON_SPANISH_SURNAMES == {"garcia", "barroso", "morales"}
COMMON_SPANISH_GIVEN_NAMES == {"maria", "jose", "antonia"}
\* name tokens, "zubiri" in neither list
NameTokens ==
    COMMON_SPANISH_SURNAMES \cup COMMON_SPANISH_GIVEN_NAMES \cup {"zubiri"}

\* faulty variant: 0.10 for every shared keyword
BoostPerKeyword(keywords1, keywords2, base_score) ==
    Min2(base_score + 100 * Cardinality(keywords1 \cap keywords2), 1000)

\* text_normalizer.py lines 125-181
calculate_boosted_similarity(keywords1, keywords2, base_score) ==
    IF keywords1 = {} \/ keywords2 = {} THEN base_score
    ELSE LET matched_keywords == keywords1 \cap keywords2
         IN  IF matched_keywords = {} THEN base_score
             ELSE LET boost == IF Cardinality(matched_keywords) = 1 THEN 100 ELSE 150
                  IN  Min2(base_score + boost, 1000)

\* text_normalizer.py lines 333-394
calculate_weighted_token_similarity(tokens1, tokens2, base_score) ==
    LET common_tokens      == tokens1 \cap tokens2
        surname_matches    == Cardinality(common_tokens \cap COMMON_SPANISH_SURNAMES)
        given_name_matches == Cardinality(common_tokens \cap COMMON_SPANISH_GIVEN_NAMES)
        surname_boost      == Min2(surname_matches * 30, 60)
    IN  IF common_tokens = {} THEN base_score
        ELSE IF surname_matches > 0 THEN Min2(base_score + surname_boost, 1000)
        ELSE IF given_name_matches > 0
             THEN Max2(base_score - Min2(given_name_matches * 20, 40), 0)
        ELSE base_score

\* database.py lines 256-265 and 300-322: the final score of one pair.  A side
\* is [is_personal, group_keywords, tokens]; group_keywords is what
\* extract_buying_group_keywords finds in the name, used only for a business name
pair_final_score(potential, db, base_score) ==
    LET potential_keywords == IF potential.is_personal THEN {}
                              ELSE potential.group_keywords
        db_keywords        == IF db.is_personal THEN {} ELSE db.group_keywords
    IN  IF potential.is_personal /\ db.is_personal
        THEN calculate_weighted_token_similarity(potential.tokens, db.tokens,
                                                 base_score)
        ELSE IF ~potential.is_personal /\ ~db.is_personal
        THEN calculate_boosted_similarity(potential_keywords, db_keywords,
                                          base_score)
        ELSE base_score

SmallSets(S) == {T \in SUBSET S : Cardinality(T) <= MaxShared}

Sides ==
    [is_personal : BOOLEAN,
     group_keywords : {{}, {"gamma"}, {"gamma", "grupo"}},
     tokens : {{"maria"}, {"barroso", "maria"}}]

InitScore ==
    /\ PipelineIdle /\ NoCacheRun /\ NoRetryRun
    /\ ret = <<>>
    /\ \/ /\ fn = "calculate_boosted_similarity"
          /\ args \in [keywords1 : SUBSET BuyingKeywords,
                       keywords2 : SUBSET BuyingKeywords,
                       base_score : BaseScores]
       \/ /\ fn = "calculate_weighted_token_similarity"
          /\ args \in [tokens1 : SmallSets(NameTokens),
                       tokens2 : SmallSets(NameTokens),
                       base_score : {0, 10, 30, 500, 950, 970, 1000}]
       \/ /\ fn = "pair_final_score"
          /\ args \in [potential : Sides, db : Sides, base_score : {500, 900, 950}]

BoostedCall ==
    /\ fn = "calculate_boosted_similarity"
    /\ ret = <<>>
    /\ ret' = <<calculate_boosted_similarity(args.keywords1, args.keywords2,
                                             args.base_score)>>
    /\ UNCHANGED <<pipelineVars, fn, args, cacheVars, retryVars>>

WeightedCall ==
    /\ fn = "calculate_weighted_token_similarity"
    /\ ret = <<>>
    /\ ret' = <<calculate_weighted_token_similarity(args.tokens1, args.tokens2,
                                                    args.base_score)>>
    /\ UNCHANGED <<pipelineVars, fn, args, cacheVars, retryVars>>

PairScoreCall ==
    /\ fn = "pair_final_score"
    /\ ret = <<>>
    /\ ret' = <<pair_final_score(args.potential, args.db, args.base_score)>>
    /\ UNCHANGED <<pipelineVars, fn, args, cacheVars, retryVars>>

NextScore ==
    \/ BoostedCall
    \/ WeightedCall
    \/ PairScoreCall

SpecScore == InitScore /\ [][NextScore]_vars



\* ==================================================== extract_sku_and_quantity
\* The function on every list of up to MaxLines raw lines, each passing or
\* failing one of the four checks of lines 241-299.
LineFailures ==
    {"missing_fields", "family_match_failed", "color_match_failed",
     "sku_construction_failed"}

InitLines ==
    /\ PipelineIdle /\ NoCacheRun /\ NoRetryRun
    /\ fn = "extract_sku_and_quantity"
    /\ ret = <<>>
    /\ \E n \in 0..MaxLines : \E fails \in [1..n -> LineFailures \cup {None}] :
         args = [response |-> [order_lines |-> [i \in 1..n |-> RawLine(i, fails[i])]]]

ExtractSkuCall ==
    /\ fn = "extract_sku_and_quantity"
    /\ ret = <<>>
    /\ ret' = <<extract_sku_and_quantity(args.response)>>
    /\ UNCHANGED <<pipelineVars, fn, args, cacheVars, retryVars>>

SpecLines == InitLines /\ [][ExtractSkuCall]_vars



\* ============================================== extract_sender_email_from_text
\* customer_id.py lines 20-106.  The text is its list of lines, top to bottom.
\* A line is [de, address]: de says whether de_at_start_pattern matches it
\* ("start"), only de_anywhere_pattern does ("inline") or neither ("none");
\* address is what the two address patterns find in the part of the line
\* they are applied to, None when they find nothing.
MaxTextLines == 3

TextLines ==
    {[de |-> "none", address |-> None]} \cup
    [de : {"start", "inline"}, address : {None, "beto@y.es", "Ana@X.es"}]

\* str.lower of an address
lower_address(address) == IF address = "Ana@X.es" THEN "ana@x.es" ELSE address

\* lines 62-77: the first line from the bottom that has "De:" at its start
\* decides, with or without an address; 0 when there is none
StartLine(lines) ==
    IF \E i \in 1..Len(lines) : lines[i].de = "start"
    THEN CHOOSE i \in 1..Len(lines) :
           /\ lines[i].de = "start"
           /\ \A j \in (i + 1)..Len(lines) : lines[j].de # "start"
    ELSE 0

\* lines 81-101: the first line from the bottom that has "De:" anywhere and an
\* address after it; 0 when there is none
InlineLine(lines) ==
    IF \E i \in 1..Len(lines) : lines[i].de # "none" /\ lines[i].address # None
    THEN CHOOSE i \in 1..Len(lines) :
           /\ lines[i].de # "none" /\ lines[i].address # None
           /\ \A j \in (i + 1)..Len(lines) :
                ~(lines[j].de # "none" /\ lines[j].address # None)
    ELSE 0

extract_sender_email_from_text(lines) ==
    IF StartLine(lines) # 0
    THEN lower_address(lines[StartLine(lines)].address)
    ELSE IF InlineLine(lines) # 0
    THEN lower_address(lines[InlineLine(lines)].address)
    ELSE None

InitSender ==
    /\ PipelineIdle /\ NoCacheRun /\ NoRetryRun
    /\ fn = "extract_sender_email_from_text"
    /\ ret = <<>>
    /\ \E n \in 0..MaxTextLines : \E lines \in [1..n -> TextLines] :
         args = [lines |-> lines]

SenderCall ==
    /\ fn = "extract_sender_email_from_text"
    /\ ret = <<>>
    /\ ret' = <<extract_sender_email_from_text(args.lines)>>
    /\ UNCHANGED <<pipelineVars, fn, args, cacheVars, retryVars>>

SpecSender == InitSender /\ [][SenderCall]_vars







\* ======================================================= concurrent approve_job
\* main.py lines 197-275.  approve_job is a synchronous endpoint: the server
\* runs each request on a thread of its pool, and nothing orders the
\* statements of two requests for one job.  The job is in review: its record
\* says awaiting_review_data and order_details.csv holds the extracted rows;
\* the locals of the extraction task are gone.
MaxRequests == 2

ReviewRow(n) ==
    [orderno |-> 1, customerid |-> "1041", customer_name |-> "BARROSO",
     sku |-> RawLine(n, None).sku, quantity |-> RawLine(n, None).quantity,
     reference_no |-> None, valve |-> "no", delivery_address |-> None,
     cpsd |-> None, entry_id |-> "msg", option_sku |-> None,
     option_qty |-> None, telephone_number |-> None, contact_name |-> None]

InitApprove ==
    /\ extracted_emails = <<>>
    /\ jobStatus = "awaiting_review_data"
    /\ pc = "returned"
    /\ idx = 0
    /\ order_number = 1
    /\ all_orders = <<>>
    /\ all_failure_contexts = <<>>
    /\ message_id = None
    /\ customer = NoCustomer
    /\ order_lines = <<>>
    /\ futures = NoFutures
    /\ yield_order = <<>>
    /\ results = NoneDict
    /\ calls = {}
    /\ returned = NoneDict
    /\ \E n \in 1..MaxLines : order_details = [i \in 1..n |-> ReviewRow(i)]
    /\ saved_contexts = <<>>
    /\ cid_calls = <<>>
    /\ orders_to_insert = <<>> /\ export_result = NoneDict /\ batch = <<>>
    /\ requests = [r \in 1..MaxRequests |-> "idle"]
    /\ tidy_enqueued = 0
    /\ tidy_runs = 0
    /\ committed = <<>>
    /\ NoHarness /\ NoCacheRun /\ NoRetryRun

approveFrame ==
    <<extracted_emails, pc, order_details, saved_contexts, accVars, emailVars,
      poolVars, cid_calls, orders_to_insert, export_result, batch, sideVars>>

\* lines 211-222: get_job_status, and HTTP 400 unless awaiting_review_data
ApproveRejected(r) ==
    /\ requests[r] = "idle"
    /\ jobStatus # "awaiting_review_data"
    /\ requests' = [requests EXCEPT ![r] = "rejected"]
    /\ UNCHANGED <<jobStatus, tidy_enqueued, tidy_runs, committed, approveFrame>>

\* lines 211-224: the status read is awaiting_review_data; approved, no edits
ApprovePassed(r) ==
    /\ requests[r] = "idle"
    /\ jobStatus = "awaiting_review_data"
    /\ requests' = [requests EXCEPT ![r] = "passed"]
    /\ UNCHANGED <<jobStatus, tidy_enqueued, tidy_runs, committed, approveFrame>>

\* line 255: update_job_status(job_id, "running")
ApproveSetRunning(r) ==
    /\ requests[r] = "passed"
    /\ jobStatus' = "running"
    /\ requests' = [requests EXCEPT ![r] = "running_set"]
    /\ UNCHANGED <<tidy_enqueued, tidy_runs, committed, approveFrame>>

\* lines 258-263: tidy_emails_task.delay(job_id), then the response
ApproveEnqueue(r) ==
    /\ requests[r] = "running_set"
    /\ tidy_enqueued' = tidy_enqueued + 1
    /\ requests' = [requests EXCEPT ![r] = "approved"]
    /\ UNCHANGED <<jobStatus, tidy_runs, committed, approveFrame>>

\* task_tidy_emails.py lines 306-398, one run of a queued task taken as one
\* step: it tests no status, reads order_details.csv and exports it; the
\* batch is committed or not
TidyTaskRuns ==
    /\ tidy_runs < tidy_enqueued
    /\ tidy_runs' = tidy_runs + 1
    /\ LET orders == [i \in 1..Len(order_details) |-> row_to_order(order_details[i])]
           valid  == valid_orders(orders)
       IN  \/ committed' = IF Len(valid) > 0
                          THEN Append(committed, [i \in 1..Len(valid) |-> order_data(valid[i])])
                          ELSE committed
           \/ UNCHANGED committed
    /\ jobStatus' = "completed"
    /\ UNCHANGED <<requests, tidy_enqueued, approveFrame>>

NextApprove ==
    \/ \E r \in 1..MaxRequests : ApproveRejected(r)
    \/ \E r \in 1..MaxRequests : ApprovePassed(r)
    \/ \E r \in 1..MaxRequests : ApproveSetRunning(r)
    \/ \E r \in 1..MaxRequests : ApproveEnqueue(r)
    \/ TidyTaskRuns

SpecApprove == InitApprove /\ [][NextApprove]_vars

\* ============================================== DatabaseHelper.fuzzy_match_customer
\* The similarity functions (token_set_ratio, Jaro-Winkler, the boosts) are taken
\* as given: final_score[<<i, j>>] is the final score, in hundredths, of
\* candidate name i against cache record j.  The cache is scanned in dict order.
MaxNames == 2
MaxRecords == 2

Scores == {0, 50, 85, 90}
Thresholds == {60, 85}

CandidateNames == <<"name-a", "name-b", "name-c", "name-d">>
RegistryRecords ==
    <<[customer_id |-> "3005", original |-> "BARROSO"],
      [customer_id |-> "3372", original |-> "SORIA GAMMA"],
      [customer_id |-> "77",   original |-> "LITO"],
      [customer_id |-> "4891", original |-> "NEWKER"]>>

NoBest ==
    [best_score |-> 0, best_match |-> None,
     best_customer_id |-> None, best_customer_name |-> None]

\* faulty variant: a pair that only equals the best so far replaces it
ReplacesOnTie(score, best_score) == score >= best_score

\* line 324: "if final_score > best_score"
ReplacesBest(score, best_score) == score > best_score

\* lines 253-337: the test of line 324 for pair number k (names outer, cache
\* records inner), then the rest of the two loops
RECURSIVE ScanPairs(_, _, _, _, _)
ScanPairs(potential_names, cache, final_score, k, best) ==
    IF k > Len(potential_names) * Len(cache) THEN best
    ELSE LET i == ((k - 1) \div Len(cache)) + 1
             j == ((k - 1) % Len(cache)) + 1
         IN  ScanPairs(potential_names, cache, final_score, k + 1,
                       IF ReplacesBest(final_score[<<i, j>>], best.best_score)
                       THEN [best_score         |-> final_score[<<i, j>>],
                             best_match         |-> potential_names[i],
                             best_customer_id   |-> cache[j].customer_id,
                             best_customer_name |-> cache[j].original]
                       ELSE best)

\* faulty variant: a score equal to the threshold is not a match
AboveThreshold(best_score, threshold) == best_score > threshold

\* line 351
MeetsThreshold(best_score, threshold) == best_score >= threshold

fuzzy_match_customer(potential_names, threshold, cache, final_score) ==
    IF Len(potential_names) = 0
    THEN <<None, None,
           [best_score |-> 0, best_match_name |-> None, best_match_id |-> None,
            threshold_used |-> threshold, matched_input |-> None]>>
    ELSE LET best == ScanPairs(potential_names, cache, final_score, 1, NoBest)
             match_details ==
                 [best_score      |-> best.best_score,
                  best_match_name |-> best.best_customer_name,
                  best_match_id   |-> best.best_customer_id,
                  threshold_used  |-> threshold,
                  matched_input   |-> best.best_match]
         IN  IF MeetsThreshold(best.best_score, threshold)
             THEN <<best.best_customer_id, best.best_customer_name, match_details>>
             ELSE <<None, None, match_details>>

InitMatch ==
    /\ PipelineIdle /\ NoCacheRun /\ NoRetryRun
    /\ fn = "fuzzy_match_customer"
    /\ ret = <<>>
    /\ \E ln \in 0..MaxNames, lc \in 0..MaxRecords, threshold \in Thresholds :
         \E final_score \in [(1..ln) \X (1..lc) -> Scores] :
            args = [potential_names |-> SubSeq(CandidateNames, 1, ln),
                    threshold       |-> threshold,
                    cache           |-> SubSeq(RegistryRecords, 1, lc),
                    final_score     |-> final_score]

FuzzyMatchCall ==
    /\ fn = "fuzzy_match_customer"
    /\ ret = <<>>
    /\ ret' = <<fuzzy_match_customer(args.potential_names, args.threshold,
                                     args.cache, args.final_score)>>
    /\ UNCHANGED <<pipelineVars, fn, args, cacheVars, retryVars>>

SpecMatch == InitMatch /\ [][FuzzyMatchCall]_vars

\* ===================================== the normalized-customer cache, by thread
\* Threads of one process share the DatabaseHelper of get_db_helper().  Each
\* calls fuzzy_match_customer up to MaxCalls times; thread_pc[t].at is where
\* thread t is in lines 233-243.
MaxThreads == 2
MaxCalls == 2

Threads == 1..MaxThreads

\* what _initialize_customer_cache returns
BuiltCache == [customers |-> RegistryRecords]

InitCache ==
    /\ PipelineIdle /\ NoHarness /\ NoRetryRun
    /\ normalized_customers_cache = NoneDict
    /\ registry_loads = 0
    /\ thread_pc = [t \in Threads |-> [at |-> "idle", calls |-> 0, reads |-> NoneDict]]

\* fuzzy_match_customer is entered; with no candidate name it returns at once
\* (lines 233-235)
CacheEnter(t) ==
    /\ thread_pc[t].at \in {"idle", "returned", "raised"}
    /\ thread_pc[t].calls < MaxCalls
    /\ \E has_names \in BOOLEAN :
         thread_pc' = [thread_pc EXCEPT ![t] =
                         [at    |-> IF has_names THEN "test" ELSE "returned",
                          calls |-> @.calls + 1,
                          reads |-> NoneDict]]
    /\ UNCHANGED <<pipelineVars, harnessVars, retryVars,
                   normalized_customers_cache, registry_loads>>

\* line 238: if self._normalized_customers_cache is None
CacheTest(t) ==
    /\ thread_pc[t].at = "test"
    /\ thread_pc' = [thread_pc EXCEPT ![t].at =
                       IF normalized_customers_cache = NoneDict THEN "build"
                       ELSE "read"]
    /\ UNCHANGED <<pipelineVars, harnessVars, retryVars,
                   normalized_customers_cache, registry_loads>>

\* line 239, right-hand side: _initialize_customer_cache loads and normalizes
\* the registry (lines 154-187)
CacheBuild(t) ==
    /\ thread_pc[t].at = "build"
    /\ registry_loads' = registry_loads + 1
    /\ thread_pc' = [thread_pc EXCEPT ![t].at = "assign"]
    /\ UNCHANGED <<pipelineVars, harnessVars, retryVars, normalized_customers_cache>>

\* get_all_customers raises; the cache stays unset and the call raises
CacheBuildRaises(t) ==
    /\ thread_pc[t].at = "build"
    /\ thread_pc' = [thread_pc EXCEPT ![t].at = "raised"]
    /\ UNCHANGED <<pipelineVars, harnessVars, retryVars,
                   normalized_customers_cache, registry_loads>>

\* line 239, the assignment
CacheAssign(t) ==
    /\ thread_pc[t].at = "assign"
    /\ normalized_customers_cache' = BuiltCache
    /\ thread_pc' = [thread_pc EXCEPT ![t].at = "read"]
    /\ UNCHANGED <<pipelineVars, harnessVars, retryVars, registry_loads>>

\* lines 242-382: cache = self._normalized_customers_cache, match, return
CacheRead(t) ==
    /\ thread_pc[t].at = "read"
    /\ thread_pc' = [thread_pc EXCEPT ![t].at = "returned",
                                      ![t].reads = normalized_customers_cache]
    /\ UNCHANGED <<pipelineVars, harnessVars, retryVars,
                   normalized_customers_cache, registry_loads>>

NextCache ==
    \/ \E t \in Threads : CacheEnter(t)
    \/ \E t \in Threads : CacheTest(t)
    \/ \E t \in Threads : CacheBuild(t)
    \/ \E t \in Threads : CacheBuildRaises(t)
    \/ \E t \in Threads : CacheAssign(t)
    \/ \E t \in Threads : CacheRead(t)

SpecCache == InitCache /\ [][NextCache]_vars

\* ================================================================== claims
\* what extract_customer_id and extract_sku_and_quantity answer for the
\* current email
CustomerResult ==
    extract_customer_id(email.customer_response, email.fuzzy, email.fallback_result)
SkuResult == extract_sku_and_quantity(email.sku_response)

CustomerUnresolved ==
    CustomerResult.error # None \/ CustomerResult.customer_id = None
LinesUnresolved ==
    SkuResult.error # None \/ Len(SkuResult.order_lines) = 0

\* every field a failure stub leaves empty
StubFieldsEmpty(o) ==
    /\ o.sku = None /\ o.quantity = None /\ o.reference_no = None
    /\ o.valve = "no" /\ o.delivery_address = None /\ o.cpsd = None
    /\ o.option_sku = None /\ o.option_qty = None
    /\ o.telephone_number = None /\ o.contact_name = None

\* process_single_email has returned for the current email
EmailReturned == idx >= 1 /\ pc = "loop" /\ returned # NoneDict
\* ... after running phases 3 and 4
EmailMerged == EmailReturned /\ Submitted = FieldSet

Raised == {f \in FieldSet : futures[f].state = "raised"}

\* C1: when phase 1 answers an error or no customer id, the email yields exactly
\* one failure stub (customer, sku, quantity empty, valve "no", entry_id the
\* message id, orderno the email's order number) and nothing after phase 1 runs:
\* no SKU extraction, no phase-3 task, no merge.
C1_Phase1FailFast ==
    (idx >= 1 /\ "customer_id" \in calls /\ CustomerUnresolved) =>
        /\ pc = "loop"
        /\ calls = {"customer_id"}
        /\ Submitted = {}
        /\ results = NoneDict
        /\ order_lines = <<>>
        /\ Len(returned.order_lines) = 1
        /\ LET o == returned.order_lines[1] IN
             /\ o.customerid = None /\ o.customer_name = None
             /\ StubFieldsEmpty(o)
             /\ o.entry_id = message_id
             /\ o.orderno = order_number - 1
             /\ all_orders[Len(all_orders)] = o

C1_Witness ==
    /\ EmailReturned
    /\ CustomerUnresolved
    /\ Len(returned.order_lines) = 1
    /\ returned.order_lines[1].customerid = None

\* C2: when phase 1 resolved a customer and phase 2 answers an error or no order
\* line, the email yields exactly one failure stub carrying the resolved
\* customer id and name, sku and quantity empty, and no phase-3 task is started.
C2_Phase2FailFast ==
    (idx >= 1 /\ "sku" \in calls /\ ~CustomerUnresolved /\ LinesUnresolved) =>
        /\ pc = "loop"
        /\ calls = {"customer_id", "sku"}
        /\ Submitted = {}
        /\ results = NoneDict
        /\ Len(returned.order_lines) = 1
        /\ LET o == returned.order_lines[1] IN
             /\ o.customerid = CustomerResult.customer_id
             /\ o.customer_name = CustomerResult.customer_name
             /\ o.customerid # None
             /\ StubFieldsEmpty(o)
             /\ o.entry_id = message_id
             /\ o.orderno = order_number - 1

C2_Witness ==
    /\ EmailReturned
    /\ ~CustomerUnresolved
    /\ LinesUnresolved
    /\ returned.order_lines[1].customerid = "3005"

\* the order lines the email would yield had none of the five tasks raised
NoFailureLines ==
    merged_orders([f \in FieldSet |-> TaskResult(f)], order_lines, order_number - 1,
                  customer.customer_id, customer.customer_name, message_id)

\* C3: whichever of the five phase-3 tasks raise, process_single_email does not
\* raise and returns one order line per product line; the fields of a raising
\* task take their default and the fields of the other tasks are what they
\* would be had no task raised.
C3_RaisingTasksDefault ==
    /\ (pc = "handler" => Submitted = {})
    /\ EmailMerged =>
         /\ Len(returned.order_lines) = Len(order_lines)
         /\ \A i \in 1..Len(order_lines) :
              LET o == returned.order_lines[i]
                  n == NoFailureLines[i]
              IN  /\ o.orderno = n.orderno /\ o.customerid = n.customerid
                  /\ o.customer_name = n.customer_name
                  /\ o.sku = order_lines[i].sku /\ o.quantity = order_lines[i].quantity
                  /\ IF "cpsd" \in Raised THEN o.cpsd = None
                     ELSE o.cpsd = n.cpsd /\ o.entry_id = n.entry_id
                  /\ IF "reference_no" \in Raised THEN o.reference_no = None
                     ELSE o.reference_no = n.reference_no
                  /\ IF "valve" \in Raised THEN o.valve = "no"
                     ELSE o.valve = n.valve
                  /\ IF "delivery_address" \in Raised
                     THEN /\ o.delivery_address = None
                          /\ o.telephone_number = None
                          /\ o.contact_name = None
                     ELSE /\ o.delivery_address = n.delivery_address
                          /\ o.telephone_number = n.telephone_number
                          /\ o.contact_name = n.contact_name
                  /\ IF "options" \in Raised
                     THEN o.option_sku = None /\ o.option_qty = None
                     ELSE o.option_sku = n.option_sku /\ o.option_qty = n.option_qty

C3_Witness ==
    /\ EmailMerged
    /\ Raised = {"cpsd", "delivery_address"}
    /\ Len(returned.order_lines) = 2
    /\ NoFailureLines[1].cpsd # None
    /\ returned.order_lines[1].cpsd = None
    /\ returned.order_lines[2].reference_no = "REF2"
    /\ returned.order_lines[1].option_sku # None

\* C4: a raising process_single_email is handled inside the loop: one failure
\* stub and one failure context of type "exception" are recorded for the email
\* and the loop goes on with the next email instead of failing the job.
C4_EmailFailureNeverHaltsJob ==
    [][pc = "handler" =>
         /\ pc' = "loop"
         /\ Len(all_orders') = Len(all_orders) + 1
         /\ Len(all_failure_contexts') = Len(all_failure_contexts) + 1
         /\ all_failure_contexts'[Len(all_failure_contexts')].type = "exception"]_vars

\* C5: an email that reaches phase 3 has exactly five tasks submitted, at most
\* five run at once and none waits for a worker; the merge, the return to the
\* loop and every later step find no phase-3 task pending or running.
C5_JoinBarrier ==
    /\ pc \in {"as_completed", "phase4"} => Cardinality(Submitted) = 5
    /\ Cardinality(Running) <= 5
    /\ (\E f \in FieldSet : futures[f].state = "pending") => WorkerFree
    /\ pc \notin {"submit", "as_completed"} =>
         \A f \in FieldSet : futures[f].state \in {"none", "returned", "raised"}
    /\ pc = "phase4" => FieldSet \subseteq DOMAIN results

C5_Witness ==
    /\ pc = "phase4"
    /\ Cardinality(Submitted) = 5
    /\ Raised # {}
    /\ Raised # FieldSet

\* the results dictionary as a function of the five outcomes alone
OutcomeResults ==
    [f \in FieldSet |-> IF futures[f].state = "returned" THEN futures[f].result
                        ELSE ExceptionResult(f)]

\* C6: the order lines an email yields are a function of the outcomes of the
\* five tasks, whatever the order in which as_completed yielded them.
C6_MergeIgnoresCompletionOrder ==
    EmailMerged =>
        returned.order_lines =
            merged_orders(OutcomeResults, order_lines, order_number - 1,
                          customer.customer_id, customer.customer_name, message_id)

C6_Witness ==
    /\ EmailMerged
    /\ yield_order = <<"options", "cpsd", "delivery_address", "valve", "reference_no">>
    /\ Raised = {"valve"}
    /\ Len(returned.order_lines) = 3

\* ------------------------------------------------ phase-4 alignment claims
\* the lists the oracle extracted for the current email, and its line count
ExtractedDates  == email.cpsd_response.cpsds
ExtractedRefs   == email.reference_response.reference_nos
ExtractedValves == email.valve_response.valves
NumLines        == Len(order_lines)

\* the merge of the current email has run
AlignMerged == idx = 1 /\ pc = "loop" /\ returned # NoneDict

\* C7: for every number of extracted dates, references and valve values and
\* every N >= 1 product lines, the cpsd, reference and valve assignment lists of
\* phase 4 have length exactly N, and the merge emits exactly N order lines
\* without failing.
C7_AssignmentsHaveLengthN ==
    /\ NumLines >= 1
    /\ pc \in {"phase4", "loop"}
    /\ Len(cpsd_assignments(Get(results["cpsd"], "cpsds", <<>>), NumLines)) = NumLines
    /\ Len(ref_assignments(Get(results["reference_no"], "reference_nos", <<>>),
                           NumLines)) = NumLines
    /\ Len(valve_assignments(results["valve"].valves, NumLines)) = NumLines
    /\ Len(valve_assignments(ExtractedValves, NumLines)) = NumLines
    /\ AlignMerged => Len(returned.order_lines) = NumLines

C7_Witness ==
    /\ AlignMerged
    /\ NumLines = 3
    /\ Len(ExtractedDates) = 2
    /\ Len(ExtractedRefs) = 4
    /\ Len(ExtractedValves) = 0
    /\ Len(returned.order_lines) = 3

\* C8: with c extracted dates and N product lines, line i gets the i-th date
\* when c = N, every line gets the single date when c = 1, and every line gets
\* no date for any other c.
C8_CpsdAlignment ==
    AlignMerged =>
        \A i \in 1..NumLines :
            returned.order_lines[i].cpsd =
                IF Len(ExtractedDates) = NumLines THEN ExtractedDates[i]
                ELSE IF Len(ExtractedDates) = 1 THEN ExtractedDates[1]
                ELSE None

C8_Witness ==
    /\ AlignMerged
    /\ NumLines = 3
    /\ Len(ExtractedDates) = 1
    /\ \A i \in 1..3 : returned.order_lines[i].cpsd = "2025-10-11"

\* C9: with r extracted references and N product lines, line i gets the i-th
\* reference when r = N, every line gets the single reference when r = 1, the
\* single line gets all references joined by ", " in extraction order when
\* r > 1 and N = 1, and every line gets no reference when r = 0 or when r > 1,
\* N > 1 and r # N.
C9_ReferenceAlignment ==
    AlignMerged =>
        \A i \in 1..NumLines :
            returned.order_lines[i].reference_no =
                IF Len(ExtractedRefs) = NumLines THEN ExtractedRefs[i]
                ELSE IF Len(ExtractedRefs) = 1 THEN ExtractedRefs[1]
                ELSE IF Len(ExtractedRefs) = 3 /\ NumLines = 1
                     THEN "REF1, REF2, REF3"
                ELSE IF Len(ExtractedRefs) > 1 /\ NumLines = 1
                     THEN Join(", ", ExtractedRefs)
                ELSE None

C9_Witness ==
    /\ AlignMerged
    /\ NumLines = 1
    /\ Len(ExtractedRefs) = 3
    /\ returned.order_lines[1].reference_no = "REF1, REF2, REF3"

\* a valve value as the order line stores it
StoredValve(v) == IF v \in VALID_VALVE_VALUES THEN v ELSE "no"

\* C10 as stated: when exactly one valve value is extracted for an email with
\* N > 1 product lines, every one of the N order lines gets that value.
C10_SingleValveBroadcast ==
    (AlignMerged /\ Len(ExtractedValves) = 1 /\ NumLines > 1) =>
        \A i \in 1..NumLines :
            returned.order_lines[i].valve = StoredValve(ExtractedValves[1])

\* C10: when exactly one valve value is extracted for an email with N > 1
\* product lines, the first order line gets that value ("no" when it is not a
\* valid valve value) and each of the other N - 1 lines gets "no".
C10_SingleValveFirstLineOnly ==
    (AlignMerged /\ Len(ExtractedValves) = 1 /\ NumLines > 1) =>
        /\ returned.order_lines[1].valve = StoredValve(ExtractedValves[1])
        /\ \A i \in 2..NumLines : returned.order_lines[i].valve = "no"

C10_Witness ==
    /\ AlignMerged
    /\ NumLines = 3
    /\ ExtractedValves = <<"Vertical valve">>
    /\ [i \in 1..3 |-> returned.order_lines[i].valve] = <<"Vertical valve", "no", "no">>

\* C11: a valve list whose length differs from N is never rejected: a longer
\* list is cut to its first N entries, a shorter one keeps its entries in
\* position and is padded with "no" up to N, and every valve value of an order
\* line is one of the valid valve values.
C11_ValveLengthCorrected ==
    /\ pc # "handler"
    /\ AlignMerged =>
         \A i \in 1..NumLines :
            /\ returned.order_lines[i].valve =
                 IF i <= Len(ExtractedValves) THEN StoredValve(ExtractedValves[i])
                 ELSE "no"
            /\ returned.order_lines[i].valve \in
                 {"no", "Yes", "Horizontal valve", "Vertical valve", "Rectangular valve"}

C11_Witness ==
    /\ AlignMerged
    /\ NumLines = 2
    /\ ExtractedValves = <<"lateral", "Vertical valve", "Vertical valve">>
    /\ [i \in 1..2 |-> returned.order_lines[i].valve] = <<"no", "Vertical valve">>

\* ------------------------------------------------- fuzzy_match_customer claims
\* every (candidate name, registry record) pair of the call, and the highest
\* final score over them (0 when there is no pair)
MatchPairs == (1..Len(args.potential_names)) \X (1..Len(args.cache))
MaxFinalScore ==
    IF MatchPairs = {} THEN 0
    ELSE CHOOSE m \in {args.final_score[q] : q \in MatchPairs} :
            \A q \in MatchPairs : args.final_score[q] <= m

\* record (id, name) belongs to a pair whose final score is the maximum
AttainsMax(id, name) ==
    \E q \in MatchPairs :
        /\ args.final_score[q] = MaxFinalScore
        /\ args.cache[q[2]].customer_id = id
        /\ args.cache[q[2]].original = name

\* C12: fuzzy_match_customer returns a match exactly when the highest final
\* score over all (candidate, record) pairs reaches the threshold, and then the
\* returned id and name are those of a pair with that highest score; otherwise
\* it returns (None, None) with diagnostics that hold the highest score, the
\* threshold used and the id and name of a record with that score (no id and
\* no name when no pair scores above 0).
C12_BestPairOrDiagnostics ==
    (fn = "fuzzy_match_customer" /\ Len(ret) = 1) =>
        LET customer_id   == ret[1][1]
            customer_name == ret[1][2]
            match_details == ret[1][3]
        IN  /\ (customer_id # None) <=> (MaxFinalScore >= args.threshold)
            /\ customer_id # None => AttainsMax(customer_id, customer_name)
            /\ customer_id = None =>
                 /\ customer_name = None
                 /\ match_details.best_score = MaxFinalScore
                 /\ match_details.threshold_used = args.threshold
                 /\ IF MaxFinalScore > 0
                    THEN AttainsMax(match_details.best_match_id,
                                    match_details.best_match_name)
                    ELSE /\ match_details.best_match_id = None
                         /\ match_details.best_match_name = None

C12_Witness ==
    /\ fn = "fuzzy_match_customer"
    /\ Len(ret) = 1
    /\ Len(args.potential_names) = 2
    /\ Len(args.cache) = 2
    /\ args.threshold = 85
    /\ args.final_score[<<1, 1>>] = 85
    /\ args.final_score[<<2, 2>>] = 90
    /\ ret[1][1] = "3372"
    /\ ret[1][2] = "SORIA GAMMA"

\* ------------------------------------------------- extract_customer_id claims
LookupAttempted ==
    \E i \in 1..Len(cid_calls) : cid_calls[i] = "try_email_lookup_fallback"
FuzzyAttempted ==
    \E i \in 1..Len(cid_calls) : cid_calls[i] = "fuzzy_match_customer"

\* the oracle answered with a customer id to be used as it is
DirectCustomerId ==
    /\ Get(email.customer_response, "customer_id", None) # None
    /\ ~Get(email.customer_response, "needs_fuzzy_match", TRUE)

\* extract_customer_id has run for the current email and its oracle call
\* answered
CustomerExtracted ==
    idx >= 1 /\ "customer_id" \in calls /\ ~IsOracleError(email.customer_response)

\* C13: for an email whose oracle call answered, the sender-address lookup is
\* attempted exactly when the oracle gave no customer id to use directly and
\* either no candidate name was supplied or fuzzy matching at the 0.85
\* threshold found no record; it is never attempted after a successful fuzzy
\* match, and when the lookup finds a customer that customer is the result,
\* with no error.
C13_LookupFallback ==
    CustomerExtracted =>
        /\ LookupAttempted <=>
             /\ ~DirectCustomerId
             /\ \/ Len(Get(email.customer_response, "customer_names", <<>>)) = 0
                \/ (FuzzyAttempted /\ email.fuzzy.customer_id = None)
        /\ (FuzzyAttempted /\ email.fuzzy.customer_id # None) =>
             /\ ~LookupAttempted
             /\ CustomerResult.customer_id = email.fuzzy.customer_id
        /\ DirectCustomerId => cid_calls = <<"call_complex">>
        /\ (LookupAttempted /\ email.fallback_result # NoneDict) =>
             /\ CustomerResult.customer_id = email.fallback_result.customer_id
             /\ CustomerResult.customer_name = email.fallback_result.customer_name
             /\ CustomerResult.error = None
             /\ pc = "phase2" =>
                  customer = [customer_id   |-> email.fallback_result.customer_id,
                              customer_name |-> email.fallback_result.customer_name]

C13_Witness ==
    /\ CustomerExtracted
    /\ pc = "phase2"
    /\ cid_calls = <<"call_complex", "fuzzy_match_customer", "try_email_lookup_fallback">>
    /\ email.fuzzy.customer_id = None
    /\ customer.customer_id = "3005"

\* ------------------------------------------------------------- cache claims
\* C14: the normalized-customer cache is built at most once per session, even
\* when several threads enter fuzzy_match_customer before the first build has
\* finished: the registry is loaded once and no second build starts.
C14_CacheBuiltOnce ==
    /\ registry_loads <= 1
    /\ Cardinality({t \in Threads : thread_pc[t].at \in {"build", "assign"}}) <= 1

\* C15: every phase-1 or phase-2 resolution failure of an email appends exactly
\* one failure context, of type customer_id or sku_extraction, to the job's
\* list; with no candidate name and no customer for the sender address the
\* context has type customer_id and email_lookup_attempted = TRUE.
C15_EveryFailureHasContext ==
    (EmailReturned /\ (CustomerUnresolved \/ LinesUnresolved)) =>
        /\ Len(returned.failure_contexts) = 1
        /\ returned.failure_contexts[1].type =
             IF CustomerUnresolved THEN "customer_id" ELSE "sku_extraction"
        /\ Len(all_failure_contexts) >= 1
        /\ all_failure_contexts[Len(all_failure_contexts)] = returned.failure_contexts[1]
        /\ CustomerUnresolved =>
             returned.failure_contexts[1].email_lookup_attempted = TRUE

\* C16: after an approval that changes nothing, the single stub of a degraded
\* email is rejected by validate_order (it is reported as a validation
\* failure and no row of the batch carries its order number), while every
\* order line of the other emails of the job is in the batch handed to
\* insert_orders_batch, and the batch holds nothing else.
IsStub(order) == "error" \in DOMAIN order

C16_StubRejectedPerLine ==
    pc = "exported" =>
      /\ \A i \in 1..Len(all_orders) :
           IF IsStub(all_orders[i])
           THEN /\ \A j \in 1..Len(batch) : batch[j].orderno # all_orders[i].orderno
                /\ \E k \in 1..Len(export_result.failed_orders) :
                     /\ export_result.failed_orders[k].orderno = all_orders[i].orderno
                     /\ export_result.failed_orders[k].error_type = "Validation Error"
           ELSE \E j \in 1..Len(batch) :
                     /\ batch[j].orderno = all_orders[i].orderno
                     /\ batch[j]["13DigitAlias"] = all_orders[i].sku
                     /\ batch[j].orderqty = all_orders[i].quantity
      /\ Len(batch) = Len(SelectSeq(all_orders, LAMBDA o : ~IsStub(o)))

C16_Witness ==
    /\ pc = "exported"
    /\ \E i \in 1..Len(all_orders) : IsStub(all_orders[i])
    /\ \E i \in 1..Len(all_orders) : ~IsStub(all_orders[i])
    /\ Len(batch) >= 2
    /\ export_result.success_count = Len(batch)
    /\ export_result.failed_count = 1

\* C17: whatever max_retries is configured, call_with_retry ends either by
\* returning the record of the first successful attempt, every earlier
\* attempt having failed, or by raising the exception of attempt number
\* max_retries after max_retries failed calls; it never makes more than
\* max_retries calls and never returns without a record.
EarlierCallsFailed ==
    \A i \in 1..(Len(api_calls) - 1) : ~AttemptSucceeds(api_calls[i])

C17_RecordOrLastException ==
    /\ Len(api_calls) <= max_retries
    /\ call_outcome # NoneDict =>
         \/ /\ call_outcome.kind = "returned"
            /\ call_outcome.value # NoneDict
            /\ Len(api_calls) >= 1
            /\ AttemptSucceeds(api_calls[Len(api_calls)])
            /\ call_outcome.value =
                 parse_reply(api_calls[Len(api_calls)], args.response_format)
            /\ EarlierCallsFailed
         \/ /\ call_outcome.kind = "raised"
            /\ Len(api_calls) = max_retries
            /\ \A i \in 1..Len(api_calls) : ~AttemptSucceeds(api_calls[i])
            /\ call_outcome.exception = api_calls[Len(api_calls)]

\* C18: construct_sku gives the same result when its two dimensions are
\* exchanged.  Dimensions in 0..999 are emitted larger first as three decimal
\* digits each; with a 3-character family, a 4-character color and
\* dimensions in 1..999 the result is a 13-character string; and whenever
\* the composed string is not 13 characters long the result is None.
ThreeDigits(n) ==
    ToString(n \div 100) \o ToString((n \div 10) % 10) \o ToString(n % 10)

Larger(a, b) == IF a >= b THEN a ELSE b
Smaller(a, b) == IF a >= b THEN b ELSE a

C18_SkuSymmetricThirteen ==
    (fn = "construct_sku" /\ ret # <<>>) =>
      LET a == args.length
          b == args.width
          composed == args.family_prefix \o zfill(Larger(a, b), 3)
                        \o zfill(Smaller(a, b), 3) \o args.color_code
      IN  /\ ret[1] = construct_sku(args.family_prefix, b, a, args.color_code)
          /\ ({a, b} \subseteq 0..999) =>
               composed = args.family_prefix \o ThreeDigits(Larger(a, b))
                            \o ThreeDigits(Smaller(a, b)) \o args.color_code
          /\ (Len(args.family_prefix) = 3 /\ Len(args.color_code) = 4
                /\ {a, b} \subseteq 1..999) =>
               (ret[1] # None /\ Len(ret[1]) = 13)
          /\ ret[1] = IF Len(composed) = 13 THEN composed ELSE None

C18_Witness ==
    /\ fn = "construct_sku"
    /\ args = [family_prefix |-> "NAT", length |-> 80, width |-> 140,
               color_code |-> "MOKA"]
    /\ ret = <<"NAT140080MOKA">>

\* C19: normalize_business_name is idempotent: applied to its own result it
\* returns that result unchanged, for every input name.
C19_BusinessNameIdempotent ==
    (fn = "normalize_business_name" /\ Len(ret) = 2) => ret[2] = ret[1]

\* C20: the result of normalize_personal_name does not change when two tokens
\* of the input change places, when a token is written twice, or when a
\* gendered given name is replaced by its counterpart; both members of a pair
\* come out as the smaller spelling; the output tokens are strictly ascending
\* (sorted and pairwise distinct); and normalising the result again returns it
\* unchanged.
InputTokens == split(args.text)

Swapped(tokens, i, j) ==
    [k \in 1..Len(tokens) |->
       IF k = i THEN tokens[j] ELSE IF k = j THEN tokens[i] ELSE tokens[k]]

Counterpart(tokens, i) ==
    [k \in 1..Len(tokens) |->
       IF k = i /\ tokens[k] \in DOMAIN SPANISH_GENDERED_NAMES
       THEN SPANISH_GENDERED_NAMES[tokens[k]] ELSE tokens[k]]

SharedKeywords == Cardinality(args.keywords1 \cap args.keywords2)

C21_BuyingGroupBoost ==
    /\ (fn = "calculate_boosted_similarity" /\ ret # <<>>) =>
         /\ SharedKeywords = 0 => ret[1] = args.base_score
         /\ SharedKeywords = 1 => ret[1] = Min2(args.base_score + 100, 1000)
         /\ SharedKeywords >= 2 => ret[1] = Min2(args.base_score + 150, 1000)
         /\ ret[1] <= 1000
    /\ (fn = "pair_final_score" /\ ret # <<>>) =>
         /\ (args.potential.is_personal # args.db.is_personal) =>
               ret[1] = args.base_score
         /\ (~args.potential.is_personal /\ ~args.db.is_personal) =>
               LET shared == Cardinality(args.potential.group_keywords
                                           \cap args.db.group_keywords)
               IN  ret[1] = Min2(args.base_score +
                                   (IF shared = 0 THEN 0
                                    ELSE IF shared = 1 THEN 100 ELSE 150), 1000)

C21_Witness ==
    /\ fn = "calculate_boosted_similarity"
    /\ args = [keywords1 |-> {"gamma", "grupo", "gremio"},
               keywords2 |-> {"gamma", "grupo", "gremio"}, base_score |-> 500]
    /\ ret = <<650>>

\* C22: for two personal names, s >= 1 shared listed surnames give
\* base + min(0.03 s, 0.06) capped at 1.0; shared tokens that include no
\* listed surname and are all common given names (g of them) give
\* base - min(0.02 g, 0.04) floored at 0; every other case gives the base score.
CommonTokens == args.tokens1 \cap args.tokens2

C22_PersonalPairAdjustment ==
    (fn = "calculate_weighted_token_similarity" /\ ret # <<>>) =>
      LET s == Cardinality(CommonTokens \cap COMMON_SPANISH_SURNAMES)
          g == Cardinality(CommonTokens \cap COMMON_SPANISH_GIVEN_NAMES)
      IN  IF s >= 1
          THEN ret[1] = Min2(args.base_score + Min2(30 * s, 60), 1000)
          ELSE IF CommonTokens # {} /\ CommonTokens \subseteq COMMON_SPANISH_GIVEN_NAMES
          THEN ret[1] = Max2(args.base_score - Min2(20 * g, 40), 0)
          ELSE ret[1] = args.base_score

\* C23: in extract_sku_and_quantity every line that fails one of the four
\* checks is entered in failed_lines with its 1-based index and reason and
\* the loop goes on; the returned order lines are the passing lines in their
\* original order; the result is a sku_extraction failure exactly when no
\* line passed.
RawLines == args.response.order_lines
PassingLines == SelectSeq(RawLines, LAMBDA line : line.fails = None)
FailingIndexes == {i \in 1..Len(RawLines) : RawLines[i].fails # None}

C23_FailedLineSkipped ==
    (fn = "extract_sku_and_quantity" /\ ret # <<>>) =>
      LET failed_lines == ProcessLines(RawLines, 1).failed_lines
      IN  /\ Len(failed_lines) = Cardinality(FailingIndexes)
          /\ \A i \in FailingIndexes :
               \E k \in 1..Len(failed_lines) :
                  failed_lines[k] = [line_number |-> i, reason |-> RawLines[i].fails]
          /\ \A k \in 1..(Len(failed_lines) - 1) :
               failed_lines[k].line_number < failed_lines[k + 1].line_number
          /\ Len(ret[1].order_lines) = Len(PassingLines)
          /\ \A k \in 1..Len(PassingLines) :
               /\ ret[1].order_lines[k].sku = PassingLines[k].sku
               /\ ret[1].order_lines[k].quantity = PassingLines[k].quantity
          /\ (ret[1].error # None) <=> (Len(PassingLines) = 0)
          /\ IF Len(PassingLines) = 0
             THEN ret[1].failure_context.type = "sku_extraction"
             ELSE ret[1].failure_context = NoneDict
          /\ (Len(PassingLines) = 0 /\ Len(RawLines) > 0) =>
               /\ ret[1].failure_context.reason = "all_lines_failed"
               /\ ret[1].failure_context.failed_lines = failed_lines

C23_Witness ==
    /\ fn = "extract_sku_and_quantity"
    /\ Len(RawLines) = 3
    /\ RawLines[1].fails = None
    /\ RawLines[2].fails = "color_match_failed"
    /\ RawLines[3].fails = None
    /\ ret # <<>>
    /\ Len(ret[1].order_lines) = 2
    /\ ret[1].order_lines[2].sku = RawLines[3].sku
    /\ ret[1].error = None

\* C24: call_with_retry sleeps 2^k seconds after the k-th failed attempt when
\* k < max_retries, and then makes attempt k + 1; it does not sleep after the
\* last failed attempt; a reply that cannot be parsed as JSON is a failed
\* attempt like an API error: it is followed by the same wait and retry.
Unparsable(i) ==
    /\ args.response_format = "json"
    /\ api_calls[i] \in {"garbage", "fenced_garbage"}

C24_ExponentialBackoff ==
    fn = "call_with_retry" =>
      /\ \A k \in 1..Len(sleeps) :
           /\ sleeps[k] = 2 ^ k
           /\ k < max_retries
           /\ k <= Len(api_calls)
           /\ ~AttemptSucceeds(api_calls[k])
      /\ Len(api_calls) <= Len(sleeps) + 1
      /\ \A k \in 1..Len(api_calls) :
           (~AttemptSucceeds(api_calls[k]) /\ k < max_retries) => Len(sleeps) >= k
      /\ (call_outcome # NoneDict /\ call_outcome.kind = "raised") =>
           /\ Len(sleeps) = max_retries - 1
           /\ Len(api_calls) = max_retries
      /\ \A i \in 1..Len(api_calls) :
           Unparsable(i) =>
             /\ ~AttemptSucceeds(api_calls[i])
             /\ (call_outcome # NoneDict /\ call_outcome.kind = "returned") =>
                  Len(api_calls) > i

C24_Witness ==
    /\ fn = "call_with_retry"
    /\ args.response_format = "json"
    /\ max_retries = 3
    /\ api_calls = <<"garbage", "api_error", "fenced_garbage">>
    /\ sleeps = <<2, 4>>
    /\ call_outcome # NoneDict
    /\ call_outcome.kind = "raised"

\* C25: the address returned by extract_sender_email_from_text is that of the
\* bottom-most line holding a "De:" marker, at its start or inline, whatever
\* "De:" lines stand above it.
MarkedLines == {i \in 1..Len(args.lines) : args.lines[i].de # "none"}
BottomMarked == CHOOSE i \in MarkedLines : \A j \in MarkedLines : j <= i

C25_BottomMostSenderLine ==
    (fn = "extract_sender_email_from_text" /\ ret # <<>> /\ MarkedLines # {}) =>
      (args.lines[BottomMarked].address # None =>
         ret[1] = lower_address(args.lines[BottomMarked].address))

\* C26: the i-th email of a job gets order number i, whether it yields order
\* lines or a stub: the lines and failure contexts it returns all carry i,
\* and over the job the order numbers in use are 1, 2, ... without gaps, in
\* input order.
OrderNumbersUsed == {all_orders[k].orderno : k \in 1..Len(all_orders)}

C26_OrderNumberPerEmail ==
    /\ OrderNumbersUsed = 1..(order_number - 1)
    /\ \A k \in 1..(Len(all_orders) - 1) :
         all_orders[k].orderno <= all_orders[k + 1].orderno
    /\ \A k \in 1..Len(all_failure_contexts) :
         all_failure_contexts[k].order_number \in 1..(order_number - 1)
    /\ pc = "loop" => order_number = idx + 1
    /\ pc \in {"phase1", "phase2", "phase3", "submit", "as_completed", "phase4",
                "handler"} =>
         order_number = idx
    /\ returned # NoneDict =>
         /\ Len(returned.order_lines) >= 1
         /\ \A k \in 1..Len(returned.order_lines) :
              returned.order_lines[k].orderno = idx
         /\ \A k \in 1..Len(returned.failure_contexts) :
              returned.failure_contexts[k].order_number = idx

C26_Witness ==
    /\ pc = "save_csv"
    /\ Len(extracted_emails) = 2
    /\ Len(all_orders) = 3
    /\ IsStub(all_orders[1]) /\ all_orders[1].orderno = 1
    /\ ~IsStub(all_orders[2]) /\ all_orders[2].orderno = 2
    /\ all_orders[3].orderno = 2
    /\ Len(all_failure_contexts) = 1
    /\ all_failure_contexts[1].order_number = 1

\* C27: the failure contexts of a job are written to the job record in one
\* step only: when the loop is over and order_details.csv is saved, the whole
\* per-job list, if it is not empty, and never a second time; the step after
\* the CSV always goes on to the status update with the status untouched,
\* whether the write succeeded or failed.
CsvSaved ==
    order_details = [i \in 1..Len(all_orders) |->
                       [c \in output_columns |-> all_orders[i][c]]]

ContextsWriteStep ==
    /\ saved_contexts' # saved_contexts =>
         /\ pc = "save_contexts"
         /\ idx = Len(extracted_emails)
         /\ CsvSaved
         /\ saved_contexts = <<>>
         /\ all_failure_contexts # <<>>
         /\ saved_contexts' = <<all_failure_contexts>>
    /\ pc = "save_contexts" =>
         /\ pc' = "finish"
         /\ jobStatus' = jobStatus

C27_ContextsWrittenOnce == [][ContextsWriteStep]_vars

\* the write failed and the job still reached the review state
C27_Witness ==
    /\ pc = "returned"
    /\ jobStatus = "awaiting_review_data"
    /\ Len(extracted_emails) = 2
    /\ Len(all_failure_contexts) = 2
    /\ saved_contexts = <<>>

\* C28: when extract_data_task has returned, the job it set to running is in
\* awaiting_review_data or failed, for every list of extracted emails, the
\* empty one included.
C28_NeverLeftRunning ==
    pc = "returned" => jobStatus \in {"awaiting_review_data", "failed"}

\* C29: of the approve requests for one job, concurrent or repeated, at most
\* one passes the status check and enqueues tidy_emails_task, and the
\* approved order lines are committed to the database at most once.
C29_TidyStartedOnce ==
    /\ Cardinality({r \in DOMAIN requests :
                      requests[r] \in {"passed", "running_set", "approved"}}) <= 1
    /\ tidy_enqueued <= 1
    /\ Len(committed) <= 1

\* C30: when several (candidate name, registry record) pairs tie for the best
\* final score, fuzzy_match_customer keeps the first of them in iteration
\* order (candidate names in input order, then registry records in cache
\* order); the pair it reports is that one, whatever the later pairs are.
PairBefore(p, q) == p[1] < q[1] \/ (p[1] = q[1] /\ p[2] < q[2])
BestPairs == {q \in MatchPairs : args.final_score[q] = MaxFinalScore}
FirstBestPair ==
    CHOOSE q \in BestPairs : \A p \in BestPairs : p = q \/ PairBefore(q, p)
C30_FirstBestPairKept ==
    (fn = "fuzzy_match_customer" /\ Len(ret) = 1 /\ MaxFinalScore > 0) =>
        LET match_details == ret[1][3]
        IN  /\ match_details.matched_input = args.potential_names[FirstBestPair[1]]
            /\ match_details.best_match_id = args.cache[FirstBestPair[2]].customer_id
            /\ match_details.best_match_name = args.cache[FirstBestPair[2]].original
            /\ ret[1][1] \in {None, args.cache[FirstBestPair[2]].customer_id}

C30_Witness ==
    /\ fn = "fuzzy_match_customer"
    /\ Len(ret) = 1
    /\ Len(args.potential_names) = 2
    /\ Len(args.cache) = 2
    /\ args.threshold = 85
    /\ args.final_score[<<1, 1>>] = 50
    /\ args.final_score[<<1, 2>>] = 90
    /\ args.final_score[<<2, 1>>] = 90
    /\ args.final_score[<<2, 2>>] = 90
    /\ ret[1][1] = "3372"
    /\ ret[1][3].matched_input = "name-a"

====
